---- MODULE Spec2Model ----
(***************************************************************************)
(* DDC corpus statistics: the filename codec (parse_filename,              *)
(* validate_filename, generate_filename), the single-pass corpus scan      *)
(* that builds the index, and the per-issue / per-newspaper analyses that  *)
(* read it.                                                                *)
(*                                                                         *)
(* Strings are sequences of one-character strings, so that formatting,     *)
(* splitting and pattern matching are computed rather than assumed.        *)
(***************************************************************************)
EXTENDS Integers, Sequences, FiniteSets, TLC

VARIABLES
    \* ---- codec client (one call chain on one input) ----
    input,        \* the filename or the field tuple handed to the codec
    validated,    \* validate_filename(input.name)
    decoded,      \* parse_filename(input.name)
    encoded,      \* generate_filename(...) of the decoded record / the field tuple
    revalidated,  \* validate_filename(encoded filename)
    redecoded,    \* parse_filename(encoded filename)
    suggested,    \* suggest_filename_fix(input.name)
    \* ---- analyzer object (NewspaperCorpusAnalyzer / AdvancedCorpusAnalyzer) ----
    corpus,       \* the files found under corpus_root (what rglob may yield)
    pc,           \* "new" (constructed), "scanning" (inside scan_corpus), "done"
    data,         \* newspaper -> year -> list of parsed records
    issues,       \* newspaper -> set of dates
    pages_by_newspaper,
    pages_by_year,
    pages_by_newspaper_year,
    issues_by_year,
    libraries,
    library_issues,
    library_years,
    issues_detail,   \* newspaper -> date -> list of page numbers
    frequency_cache, \* ConsolidatedExporter only: newspaper -> frequency profile
    cls,             \* the class of the analyzer object
    walked,          \* the file names rglob has yielded so far, in order
    total_files,     \* scan_corpus locals
    valid_files,
    invalid_files,
    scans,           \* the calls of scan_corpus made on the object
    report           \* result of the latest analysis run on the index

codecVars == <<input, validated, decoded, encoded, revalidated, redecoded,
               suggested>>
indexVars == <<data, issues, pages_by_newspaper, pages_by_year,
               pages_by_newspaper_year, issues_by_year, libraries,
               library_issues, library_years>>
scanVars == <<corpus, cls, pc, walked, issues_detail, frequency_cache,
              total_files, valid_files, invalid_files, scans>>
vars == <<codecVars, indexVars, scanVars, report>>

-----------------------------------------------------------------------------
(* Characters and the str methods the code uses                            *)

Upper == {"A", "B", "C", "D", "E", "F", "G", "I", "J", "N", "P", "Q", "S", "T",
          "U", "X", "Z"}
Lower == {"a", "b", "c", "d", "e", "f", "g", "i", "j", "n", "p", "q", "s", "t",
          "u", "x", "z"}
Digit == {"0", "1", "2", "3", "4", "5", "6", "7", "8", "9"}

DigitVal(c) ==
    CASE c = "0" -> 0 [] c = "1" -> 1 [] c = "2" -> 2 [] c = "3" -> 3
      [] c = "4" -> 4 [] c = "5" -> 5 [] c = "6" -> 6 [] c = "7" -> 7
      [] c = "8" -> 8 [] c = "9" -> 9

DigitChar(n) ==
    CASE n = 0 -> "0" [] n = 1 -> "1" [] n = 2 -> "2" [] n = 3 -> "3"
      [] n = 4 -> "4" [] n = 5 -> "5" [] n = 6 -> "6" [] n = 7 -> "7"
      [] n = 8 -> "8" [] n = 9 -> "9"

\* str.lower() on one character
LowerChar(c) ==
    CASE c = "A" -> "a" [] c = "B" -> "b" [] c = "C" -> "c" [] c = "D" -> "d"
      [] c = "F" -> "f" [] c = "I" -> "i" [] c = "N" -> "n" [] c = "Q" -> "q"
      [] c = "S" -> "s" [] c = "T" -> "t" [] c = "U" -> "u" [] c = "Z" -> "z"
      [] c = "E" -> "e" [] c = "G" -> "g" [] c = "J" -> "j" [] c = "P" -> "p"
      [] c = "X" -> "x"
      [] OTHER -> c

lower(s) == [i \in 1..Len(s) |-> LowerChar(s[i])]

\* str.upper() on one character
UpperChar(c) ==
    CASE c = "a" -> "A" [] c = "b" -> "B" [] c = "c" -> "C" [] c = "d" -> "D"
      [] c = "f" -> "F" [] c = "i" -> "I" [] c = "n" -> "N" [] c = "q" -> "Q"
      [] c = "s" -> "S" [] c = "t" -> "T" [] c = "u" -> "U" [] c = "z" -> "Z"
      [] c = "e" -> "E" [] c = "g" -> "G" [] c = "j" -> "J" [] c = "p" -> "P"
      [] c = "x" -> "X"
      [] OTHER -> c

upper(s) == [i \in 1..Len(s) |-> UpperChar(s[i])]

\* str.isupper(): at least one cased character and no lowercase one
isupper(s) ==
    /\ \E i \in 1..Len(s) : s[i] \in Upper
    /\ \A i \in 1..Len(s) : s[i] \notin Lower

\* str.isdigit(): non-empty and all digits
isdigit(s) == Len(s) > 0 /\ \A i \in 1..Len(s) : s[i] \in Digit

\* int(s) for a string of digits
RECURSIVE int(_)
int(s) ==
    IF Len(s) = 0 THEN 0
    ELSE 10 * int(SubSeq(s, 1, Len(s) - 1)) + DigitVal(s[Len(s)])

\* str(n) for n >= 0
RECURSIVE str(_)
str(n) == IF n < 10 THEN <<DigitChar(n)>> ELSE str(n \div 10) \o <<DigitChar(n % 10)>>

\* format(n, "0<w>d") for n >= 0: zero-padded to a minimum width
RECURSIVE zfill(_, _)
zfill(s, w) == IF Len(s) >= w THEN s ELSE zfill(<<"0">> \o s, w)

\* format(n, "d"): the width forgotten
fmtUnpadded(n, w) == str(n)

fmt(n, w) == zfill(str(n), w)

\* str.split(sep): the parts between separators (always at least one part)
RECURSIVE split(_, _)
split(s, sep) ==
    IF \A i \in 1..Len(s) : s[i] # sep THEN <<s>>
    ELSE LET k == CHOOSE i \in 1..Len(s) :
                      s[i] = sep /\ \A j \in 1..(i - 1) : s[j] # sep
         IN <<SubSeq(s, 1, k - 1)>> \o split(SubSeq(s, k + 1, Len(s)), sep)

\* str.rfind("."): 0-based index of the last dot, -1 if none
rfind_dot(s) ==
    IF \A i \in 1..Len(s) : s[i] # "." THEN -1
    ELSE (CHOOSE i \in 1..Len(s) :
              s[i] = "." /\ \A j \in (i + 1)..Len(s) : s[j] # ".") - 1

\* pathlib: PurePath(name).stem and .suffix of a bare file name
StemAt(name, i) ==
    IF 0 < i /\ i < Len(name) - 1 THEN SubSeq(name, 1, i) ELSE name

stem(name) == StemAt(name, rfind_dot(name))

SuffixAt(name, i) ==
    IF 0 < i /\ i < Len(name) - 1 THEN SubSeq(name, i + 1, Len(name)) ELSE <<>>

suffix(name) == SuffixAt(name, rfind_dot(name))

-----------------------------------------------------------------------------
(* constants.py                                                            *)

VALID_EXTENSIONS ==
    { <<".", "j", "p", "g">>, <<".", "j", "p", "e", "g">>, <<".", "p", "n", "g">>,
      <<".", "t", "i", "f">>, <<".", "t", "i", "f", "f">>, <<".", "p", "d", "f">> }

AllUpper(s) == \A i \in 1..Len(s) : s[i] \in Upper
AllDigit(s) == \A i \in 1..Len(s) : s[i] \in Digit

\* re.match(FILENAME_PATTERN, name):
\*   ^([A-Z]{3})_(\d{4})_(\d{2})_(\d{2})_(\d{3})_([A-Z]{2})(?:_(.+))?$
FILENAME_PATTERN(name) ==
    /\ Len(name) >= 21
    /\ AllUpper(SubSeq(name, 1, 3))
    /\ name[4] = "_"
    /\ AllDigit(SubSeq(name, 5, 8))
    /\ name[9] = "_"
    /\ AllDigit(SubSeq(name, 10, 11))
    /\ name[12] = "_"
    /\ AllDigit(SubSeq(name, 13, 14))
    /\ name[15] = "_"
    /\ AllDigit(SubSeq(name, 16, 18))
    /\ name[19] = "_"
    /\ AllUpper(SubSeq(name, 20, 21))
    /\ \/ Len(name) = 21
       \/ Len(name) >= 23 /\ name[22] = "_"

\* match.groups(): the seventh group is None when the optional part is absent
PatternGroups(name) ==
    [ newspaper |-> SubSeq(name, 1, 3),
      year      |-> SubSeq(name, 5, 8),
      month     |-> SubSeq(name, 10, 11),
      day       |-> SubSeq(name, 13, 14),
      page      |-> SubSeq(name, 16, 18),
      library   |-> SubSeq(name, 20, 21),
      shelfmark |-> IF Len(name) >= 23 THEN SubSeq(name, 23, Len(name)) ELSE <<>> ]

-----------------------------------------------------------------------------
(* analyzer.py: parse_filename                                             *)

None == [none |-> TRUE]
Unset == [unset |-> TRUE]

\* lines 43-54: the dict built from the groups (newspaper_name, a lookup
\* of the code in NEWSPAPER_NAMES for display, is left out); line 53 turns
\* an absent group 7 into the empty string
ParsedRecord(g) ==
    [ newspaper |-> g.newspaper,
      year      |-> int(g.year),
      month     |-> int(g.month),
      day       |-> int(g.day),
      date      |-> g.year \o <<"-">> \o g.month \o <<"-">> \o g.day,
      page      |-> int(g.page),
      library   |-> g.library,
      shelfmark |-> g.shelfmark ]

\* lines 40-55, on the stem
ParseStem(name) ==
    IF FILENAME_PATTERN(name) THEN ParsedRecord(PatternGroups(name)) ELSE None

parse_filename(filename) == ParseStem(stem(filename))

-----------------------------------------------------------------------------
(* utilities.py: validate_filename, generate_filename                      *)

Verdict(ok, text, part, got) == [valid |-> ok, text |-> text, part |-> part, got |-> got]

\* lines 25-54: the diagnostic for a stem the pattern rejected
Diagnose(parts) ==
    IF Len(parts) < 6
    THEN Verdict(FALSE, "Too few parts", <<>>, Len(parts))
    ELSE IF Len(parts[1]) # 3 \/ ~isupper(parts[1])
    THEN Verdict(FALSE, "Invalid newspaper code", parts[1], 0)
    ELSE IF ~(isdigit(parts[2]) /\ Len(parts[2]) = 4)
    THEN Verdict(FALSE, "Invalid year", parts[2], 0)
    ELSE IF ~(isdigit(parts[3]) /\ Len(parts[3]) = 2
              /\ 1 <= int(parts[3]) /\ int(parts[3]) <= 12)
    THEN Verdict(FALSE, "Invalid month", parts[3], 0)
    ELSE IF ~(isdigit(parts[4]) /\ Len(parts[4]) = 2
              /\ 1 <= int(parts[4]) /\ int(parts[4]) <= 31)
    THEN Verdict(FALSE, "Invalid day", parts[4], 0)
    ELSE IF ~(isdigit(parts[5]) /\ Len(parts[5]) = 3)
    THEN Verdict(FALSE, "Invalid page number", parts[5], 0)
    ELSE IF Len(parts[6]) # 2 \/ ~isupper(parts[6])
    THEN Verdict(FALSE, "Invalid library code", parts[6], 0)
    ELSE Verdict(FALSE, "Unknown error in filename format", <<>>, 0)

\* lines 23-56, on the stem
ValidateStem(name) ==
    IF ~FILENAME_PATTERN(name) THEN Diagnose(split(name, "_"))
    ELSE Verdict(TRUE, "Valid", <<>>, 0)

validate_filename(filename) == ValidateStem(stem(filename))

Raised(msg) == [exc |-> "ValueError", msg |-> msg, value |-> <<>>]
Returned(v) == [exc |-> "none", msg |-> "", value |-> v]

generate_filename(newspaper_code, year, month, day, page, library_code, shelfmark, extension) ==
    IF Len(newspaper_code) # 3 \/ ~isupper(newspaper_code)
    THEN Raised("Newspaper code must be 3 uppercase letters")
    ELSE IF ~(1000 <= year /\ year <= 9999)
    THEN Raised("Year must be 4 digits")
    ELSE IF ~(1 <= month /\ month <= 12)
    THEN Raised("Month must be 1-12")
    ELSE IF ~(1 <= day /\ day <= 31)
    THEN Raised("Day must be 1-31")
    ELSE IF ~(1 <= page /\ page <= 999)
    THEN Raised("Page must be 1-999")
    ELSE IF Len(library_code) # 2 \/ ~isupper(library_code)
    THEN Raised("Library code must be 2 uppercase letters")
    ELSE Returned(newspaper_code \o <<"_">> \o fmt(year, 4) \o <<"_">>
                  \o fmt(month, 2) \o <<"_">> \o fmt(day, 2) \o <<"_">>
                  \o fmt(page, 3) \o <<"_">> \o library_code
                  \o (IF shelfmark # <<>> THEN <<"_">> \o shelfmark ELSE <<>>)
                  \o extension)

-----------------------------------------------------------------------------
(* Inputs: file names and field tuples the codec and the scan are given    *)

TID == <<"T", "I", "D">>
QTN == <<"Q", "T", "N">>
SB == <<"S", "B">>
CU == <<"C", "U">>
Jpg == <<".", "j", "p", "g">>
TifUpper == <<".", "T", "I", "F">>
Txt == <<".", "t", "x", "t">>
Zsn1 == <<"Z", "s", "n", "1">>

\* "_".join(parts) + ext
RECURSIVE Joined(_)
Joined(parts) ==
    IF Len(parts) = 1 THEN parts[1]
    ELSE parts[1] \o <<"_">> \o Joined(Tail(parts))

FileName(parts, ext) == Joined(parts) \o ext

D(a, b) == <<a, b>>
Y1964 == <<"1", "9", "6", "4">>
Y1965 == <<"1", "9", "6", "5">>
P(a, b, c) == <<a, b, c>>
P001 == P("0", "0", "1")

\* File names handed to the codec on their own
CodecNames ==
    { FileName(<<TID, Y1964, D("0","1"), D("0","9"), P001, SB, Zsn1>>, Jpg),
      FileName(<<TID, Y1964, D("0","1"), D("0","9"), P001, SB>>, Jpg),
      FileName(<<QTN, Y1965, D("1","2"), D("3","1"), P("9","9","9"), CU>>, TifUpper),
      FileName(<<TID, Y1964, D("0","1"), D("0","9"), P001, SB, <<"a">>, <<"b", ".", "x">>>>, Jpg),
      FileName(<<TID, Y1964, D("0","1"), D("0","9"), P001, SB, <<>>, <<"x">>>>, Jpg),
      FileName(<<TID, Y1964, D("0","2"), D("3","0"), P001, SB>>, Jpg),
      \* fields the pattern accepts although they are out of range
      FileName(<<TID, Y1964, D("1","3"), D("0","9"), P001, SB>>, Jpg),
      FileName(<<TID, Y1964, D("0","0"), D("0","9"), P001, SB>>, Jpg),
      FileName(<<TID, Y1964, D("0","1"), D("3","2"), P001, SB>>, Jpg),
      FileName(<<TID, Y1964, D("0","1"), D("0","0"), P001, SB>>, Jpg),
      FileName(<<TID, Y1964, D("0","1"), D("0","9"), P("0","0","0"), SB>>, Jpg),
      FileName(<<TID, <<"0","0","6","4">>, D("0","1"), D("0","9"), P001, SB>>, Jpg),
      \* names the pattern rejects
      FileName(<<<<"A","B","C","D">>, Y1964, D("0","1"), D("0","9"), P001, SB>>, Jpg),
      FileName(<<<<"t","i","d">>, Y1964, D("0","1"), D("0","9"), P001, SB>>, Jpg),
      FileName(<<<<"A","1","B">>, Y1964, D("0","1"), D("0","9"), P001, SB>>, Jpg),
      FileName(<<<<"A","B","C","D">>, <<"6","4">>, D("1","3"), D("0","9"), P001, <<"s","b">>>>, Jpg),
      FileName(<<TID, <<"6","4">>, D("0","1"), D("0","9"), P001, SB>>, Jpg),
      FileName(<<TID, <<"1","9","6","x">>, D("0","1"), D("0","9"), P001, SB>>, Jpg),
      FileName(<<TID, Y1964, <<"1">>, D("0","9"), P001, SB>>, Jpg),
      FileName(<<TID, Y1964, <<"0","1","3">>, D("0","9"), P001, SB>>, Jpg),
      FileName(<<TID, Y1964, D("0","1"), <<"9">>, P001, SB>>, Jpg),
      FileName(<<TID, Y1964, D("0","1"), D("0","9"), <<"1">>, SB>>, Jpg),
      FileName(<<TID, Y1964, D("0","1"), D("0","9"), <<"0","0","0","1">>, SB>>, Jpg),
      FileName(<<TID, Y1964, D("0","1"), D("0","9"), P001, <<"s","b">>>>, Jpg),
      FileName(<<TID, Y1964, D("0","1"), D("0","9"), P001, <<"S","B","X">>>>, Jpg),
      FileName(<<TID, Y1964, D("0","1"), D("0","9"), P001, <<"S","1">>>>, Jpg),
      FileName(<<TID, Y1964, D("0","1"), D("0","9"), P001, SB, <<>>>>, Jpg),
      FileName(<<TID, Y1964, D("0","1"), D("0","9"), P001>>, Jpg),
      FileName(<<<<"A","1","B">>, <<"6","4">>, D("0","1"), D("0","9"), P001, SB>>, Jpg),
      FileName(<<TID, <<"6","4">>, D("1","3"), D("0","9"), <<"1">>, <<"s","b">>>>, Jpg),
      \* names in need of capitals or of padding
      FileName(<<<<"t","i","d">>, Y1964, <<"1">>, <<"9">>, <<"1">>, <<"s","b">>>>, Jpg),
      FileName(<<<<"t","i","d">>, <<"1","9","6","4","0">>, D("0","1"), D("0","9"), P001, SB>>, Jpg),
      FileName(<<TID, Y1964, D("0","1"), D("0","9"), P001, <<"s","1">>, Zsn1>>, Jpg),
      FileName(<<TID, Y1964>>, Jpg),
      FileName(<<TID, Y1964, D("0","1"), D("0","9"), P001, SB>>, <<>>) }

\* Field tuples handed to generate_filename
FieldCodes == {TID, QTN, <<"t","i","d">>, <<"T","I">>, <<"A","B","C","D">>, <<"A","1","B">>}
FieldYears == {999, 1000, 1964, 9999, 10000}
FieldMonths == {0, 1, 12, 13}
FieldDays == {0, 9, 31, 32}
FieldPages == {0, 1, 42, 999, 1000}
FieldLibraries == {SB, <<"s","b">>, <<"S">>, <<"S","1">>}
FieldShelfmarks == {<<>>, Zsn1, <<"a", "_", "b", ".", "x">>}
FieldExtensions == {Jpg, TifUpper}

FieldTuples ==
    [ newspaper : FieldCodes, year : FieldYears, month : FieldMonths,
      day : FieldDays, page : FieldPages, library : FieldLibraries,
      shelfmark : FieldShelfmarks, extension : FieldExtensions ]

\* The declared bounds of a field tuple (generate_filename's docstring)
ValidFields(f) ==
    /\ Len(f.newspaper) = 3 /\ AllUpper(f.newspaper)
    /\ 1000 <= f.year /\ f.year <= 9999
    /\ 1 <= f.month /\ f.month <= 12
    /\ 1 <= f.day /\ f.day <= 31
    /\ 1 <= f.page /\ f.page <= 999
    /\ Len(f.library) = 2 /\ AllUpper(f.library)
    /\ lower(f.extension) \in VALID_EXTENSIONS

-----------------------------------------------------------------------------
(* utilities.py: suggest_filename_fix                                      *)

\* lines 305-311: the fields and the shelfmark joined, the extension added;
\* returned only if it differs from the name given
SuggestedName(suggestions, ext, filename) ==
    IF Joined(suggestions) \o ext # filename THEN Joined(suggestions) \o ext ELSE None

\* lines 303-306
SuggestJoin(suggestions, parts, ext, filename) ==
    SuggestedName(IF Len(parts) > 6
                  THEN Append(suggestions, Joined(SubSeq(parts, 7, Len(parts))))
                  ELSE suggestions,
                  ext, filename)

\* lines 262-300: each field is taken over corrected, or None is returned
SuggestParts(parts, ext, filename) ==
    IF Len(parts) < 6 THEN None
    ELSE IF Len(parts[1]) # 3 THEN None
    ELSE IF ~isdigit(parts[2]) THEN None
    ELSE IF ~(isdigit(parts[3]) /\ 1 <= int(parts[3]) /\ int(parts[3]) <= 12) THEN None
    ELSE IF ~(isdigit(parts[4]) /\ 1 <= int(parts[4]) /\ int(parts[4]) <= 31) THEN None
    ELSE IF ~(isdigit(parts[5]) /\ 1 <= int(parts[5]) /\ int(parts[5]) <= 999) THEN None
    ELSE IF Len(parts[6]) # 2 THEN None
    ELSE SuggestJoin(<<upper(parts[1]), fmt(int(parts[2]), 4), fmt(int(parts[3]), 2),
                       fmt(int(parts[4]), 2), fmt(int(parts[5]), 3), upper(parts[6])>>,
                     parts, ext, filename)

suggest_filename_fix(filename) ==
    SuggestParts(split(stem(filename), "_"), suffix(filename), filename)

-----------------------------------------------------------------------------
(* The codec client: one input, then the calls made on it                  *)

CodecInit ==
    /\ input \in [kind : {"name"}, name : CodecNames]
                     \cup [kind : {"fields"}, fields : FieldTuples]
    /\ validated = Unset
    /\ decoded = Unset
    /\ encoded = Unset
    /\ revalidated = Unset
    /\ redecoded = Unset
    /\ suggested = Unset

\* validate_filename(name)
ValidateFilename ==
    /\ input.kind = "name"
    /\ validated = Unset
    /\ validated' = validate_filename(input.name)
    /\ UNCHANGED <<input, decoded, encoded, revalidated, redecoded, suggested,
                   indexVars, scanVars, report>>

\* analyzer.parse_filename(name)
ParseFilename ==
    /\ input.kind = "name"
    /\ decoded = Unset
    /\ decoded' = parse_filename(input.name)
    /\ UNCHANGED <<input, validated, encoded, revalidated, redecoded, suggested,
                   indexVars, scanVars, report>>

\* generate_filename(**record) on a decoded record; the record carries no
\* extension, so the parameter's default applies
GenerateFromRecord ==
    /\ decoded # Unset
    /\ decoded # None
    /\ encoded = Unset
    /\ encoded' = generate_filename(decoded.newspaper, decoded.year, decoded.month,
                                    decoded.day, decoded.page, decoded.library,
                                    decoded.shelfmark, Jpg)
    /\ UNCHANGED <<input, validated, decoded, revalidated, redecoded, suggested,
                   indexVars, scanVars, report>>

\* generate_filename(newspaper_code, year, month, day, page, library_code, ...)
GenerateFromFields ==
    /\ input.kind = "fields"
    /\ encoded = Unset
    /\ encoded' = generate_filename(input.fields.newspaper, input.fields.year,
                                    input.fields.month, input.fields.day,
                                    input.fields.page, input.fields.library,
                                    input.fields.shelfmark, input.fields.extension)
    /\ UNCHANGED <<input, validated, decoded, revalidated, redecoded, suggested,
                   indexVars, scanVars, report>>

\* validate_filename(generated name)
ValidateGenerated ==
    /\ encoded # Unset
    /\ encoded.exc = "none"
    /\ revalidated = Unset
    /\ revalidated' = validate_filename(encoded.value)
    /\ UNCHANGED <<input, validated, decoded, encoded, redecoded, suggested,
                   indexVars, scanVars, report>>

\* analyzer.parse_filename(generated name)
ParseGenerated ==
    /\ encoded # Unset
    /\ encoded.exc = "none"
    /\ redecoded = Unset
    /\ redecoded' = parse_filename(encoded.value)
    /\ UNCHANGED <<input, validated, decoded, encoded, revalidated, suggested,
                   indexVars, scanVars, report>>

\* suggest_filename_fix(name), as batch_validate_files calls it on the
\* name of a file
SuggestFix ==
    /\ input.kind = "name"
    /\ suggested = Unset
    /\ suggested' = suggest_filename_fix(input.name)
    /\ UNCHANGED <<input, validated, decoded, encoded, revalidated, redecoded,
                   indexVars, scanVars, report>>

-----------------------------------------------------------------------------
(* defaultdict: a mapping whose keys are those inserted so far             *)

EmptyMap == <<>>

Get(d, k, default) == IF k \in DOMAIN d THEN d[k] ELSE default

Put(d, k, v) == [x \in (DOMAIN d) \cup {k} |-> IF x = k THEN v ELSE d[x]]

\* d[k1] = {k2: v}, the inner dictionary made anew
Put2Fresh(d, k1, k2, v) == Put(d, k1, Put(EmptyMap, k2, v))

\* d[k1][k2] = v through a defaultdict of defaultdicts
Put2(d, k1, k2, v) == Put(d, k1, Put(Get(d, k1, EmptyMap), k2, v))

Get2(d, k1, k2, default) == Get(Get(d, k1, EmptyMap), k2, default)

\* d[k] read on a defaultdict: __missing__ inserts the default under k
Touch(d, k, default) == IF k \in DOMAIN d THEN d ELSE Put(d, k, default)

\* d[k1][k2] read on a defaultdict of defaultdicts
Touch2(d, k1, k2, default) ==
    Put(d, k1, Touch(Get(d, k1, EmptyMap), k2, default))

RECURSIVE ReadEach(_, _, _, _)
\* d[k1][k] read for every k of keys, in turn
ReadEach(d, k1, keys, default) ==
    IF keys = <<>> THEN d
    ELSE ReadEach(Touch2(d, k1, Head(keys), default), k1, Tail(keys), default)

\* d[k] += 2 where the code has d[k] += 1
IncrementTwice(d, k) == Put(d, k, Get(d, k, 0) + 2)

\* d[k] = 1 where the code has d[k] += 1
IncrementRestarting(d, k) == Put(d, k, 1)

\* d[k] += 1 on a defaultdict(int)
Increment(d, k) == Put(d, k, Get(d, k, 0) + 1)

-----------------------------------------------------------------------------
(* The corpus directories scanned                                          *)

MaxFiles == 4

\* the calls of scan_corpus made on one object
MaxScans == 2

Page(n, d1, d2, pg, lib, mark, ext) ==
    IF mark = <<>> THEN FileName(<<n, Y1964, d1, d2, pg, lib>>, ext)
    ELSE FileName(<<n, Y1964, d1, d2, pg, lib, mark>>, ext)

\* one issue with a page missing (a page is held twice when the walk yields
\* its name from a second directory), a second newspaper and year, a
\* malformed name and a file that is no image
CorpusPages ==
    { Page(TID, D("0","1"), D("0","9"), P001, SB, <<>>, Jpg),
      Page(TID, D("0","1"), D("0","9"), P("0","0","2"), SB, <<>>, Jpg),
      Page(TID, D("0","1"), D("0","9"), P("0","0","4"), CU, Zsn1, TifUpper),
      FileName(<<QTN, Y1965, D("0","5"), D("1","5"), P001, CU>>, Jpg),
      FileName(<<<<"A","B","C","D">>, Y1964, D("0","1"), D("0","9"), P001, SB>>, Jpg),
      Page(TID, D("0","1"), D("0","9"), P001, SB, <<>>, Txt) }

\* one newspaper on six dates: 27, 28, 29 February, 2, 14 and 22 March 1964
CorpusDates ==
    { Page(TID, D("0","2"), D("2","7"), P001, SB, <<>>, Jpg),
      Page(TID, D("0","2"), D("2","8"), P001, SB, <<>>, Jpg),
      Page(TID, D("0","2"), D("2","9"), P001, SB, <<>>, Jpg),
      Page(TID, D("0","3"), D("0","2"), P001, SB, <<>>, Jpg),
      Page(TID, D("0","3"), D("1","4"), P001, SB, <<>>, Jpg),
      Page(TID, D("0","3"), D("2","2"), P001, SB, <<>>, Jpg) }

\* names the pattern accepts that are no calendar date or no page number,
\* beside a newspaper with ordinary dates
CorpusOdd ==
    { Page(TID, D("0","2"), D("3","0"), P001, SB, <<>>, Jpg),
      Page(TID, D("0","2"), D("2","9"), P001, SB, <<>>, Jpg),
      Page(TID, D("0","3"), D("0","1"), P("0","0","0"), SB, <<>>, Jpg),
      FileName(<<QTN, Y1965, D("0","5"), D("1","5"), P001, CU>>, Jpg),
      FileName(<<QTN, Y1965, D("0","5"), D("1","6"), P001, CU>>, Jpg) }

Corpora == {CorpusPages, CorpusDates, CorpusOdd}

\* one newspaper in two years, the same page of one issue from two
\* libraries, a second newspaper and a year of digits that is no year
CorpusYears ==
    { Page(TID, D("0","1"), D("0","9"), P001, SB, <<>>, Jpg),
      Page(TID, D("0","1"), D("0","9"), P001, CU, <<>>, Jpg),
      FileName(<<TID, Y1965, D("0","1"), D("0","9"), P001, SB>>, Jpg),
      FileName(<<QTN, Y1965, D("0","5"), D("1","5"), P001, CU>>, Jpg),
      FileName(<<TID, <<"0","0","6","4">>, D("0","1"), D("0","9"), P001, SB>>, Jpg) }

ScanCorpora == {CorpusPages, CorpusOdd, CorpusYears}

Classes == {"AdvancedCorpusAnalyzer", "ConsolidatedExporter"}

\* one issue with pages 1, 2, 3 from two libraries, an issue whose only
\* page is numbered 000 and a second newspaper
CorpusIssue ==
    { Page(TID, D("0","1"), D("0","9"), P001, SB, <<>>, Jpg),
      Page(TID, D("0","1"), D("0","9"), P("0","0","2"), SB, <<>>, Jpg),
      Page(TID, D("0","1"), D("0","9"), P("0","0","3"), CU, Zsn1, TifUpper),
      Page(TID, D("0","3"), D("0","1"), P("0","0","0"), SB, <<>>, Jpg),
      FileName(<<QTN, Y1965, D("0","5"), D("1","5"), P001, CU>>, Jpg) }

\* one newspaper on 27, 28, 29 February and 22 March 1964, and a second
\* newspaper on 30 February, which is no calendar date, and 1 March 1965
CorpusGaps ==
    { Page(TID, D("0","2"), D("2","7"), P001, SB, <<>>, Jpg),
      Page(TID, D("0","2"), D("2","8"), P001, SB, <<>>, Jpg),
      Page(TID, D("0","2"), D("2","9"), P001, SB, <<>>, Jpg),
      Page(TID, D("0","3"), D("2","2"), P001, CU, <<>>, Jpg),
      FileName(<<QTN, Y1965, D("0","2"), D("3","0"), P001, CU>>, Jpg),
      FileName(<<QTN, Y1965, D("0","3"), D("0","1"), P001, CU>>, Jpg) }

ReportCorpora == {CorpusIssue, CorpusGaps}

ReportClasses == Classes \cup {"LibraryHoldingsReporter"}

\* one newspaper on 27, 28, 29 February, 7 and 22 March 1964
CorpusCadence ==
    { Page(TID, D("0","2"), D("2","7"), P001, SB, <<>>, Jpg),
      Page(TID, D("0","2"), D("2","8"), P001, SB, <<>>, Jpg),
      Page(TID, D("0","2"), D("2","9"), P001, SB, <<>>, Jpg),
      Page(TID, D("0","3"), D("0","7"), P001, SB, <<>>, Jpg),
      Page(TID, D("0","3"), D("2","2"), P001, CU, <<>>, Jpg) }

\* one issue held with the pages numbered 000, 001 and 002, and an issue
\* of a second newspaper
CorpusZero ==
    { Page(TID, D("0","1"), D("0","9"), P("0","0","0"), SB, <<>>, Jpg),
      Page(TID, D("0","1"), D("0","9"), P001, SB, <<>>, Jpg),
      Page(TID, D("0","1"), D("0","9"), P("0","0","2"), SB, <<>>, Jpg),
      FileName(<<QTN, Y1965, D("0","5"), D("1","5"), P001, CU>>, Jpg) }

AllClasses == ReportClasses \cup {"NewspaperCorpusAnalyzer"}

-----------------------------------------------------------------------------
(* analyzer.py: NewspaperCorpusAnalyzer.__init__ and scan_corpus           *)

\* __init__ (with the subclasses' issues_detail and frequency_cache)
AnalyzerInit ==
    /\ pc = "new"
    /\ data = EmptyMap
    /\ issues = EmptyMap
    /\ pages_by_newspaper = EmptyMap
    /\ pages_by_year = EmptyMap
    /\ pages_by_newspaper_year = EmptyMap
    /\ issues_by_year = EmptyMap
    /\ libraries = EmptyMap
    /\ library_issues = EmptyMap
    /\ library_years = EmptyMap
    /\ issues_detail = EmptyMap
    /\ frequency_cache = EmptyMap
    /\ walked = <<>>
    /\ total_files = 0
    /\ valid_files = 0
    /\ invalid_files = <<>>
    /\ scans = 0
    /\ report = Unset

\* scan_corpus, lines 62-64: the locals are set and the walk begins
BeginScan ==
    /\ pc = "new"
    /\ pc' = "scanning"
    /\ total_files' = 0
    /\ valid_files' = 0
    /\ invalid_files' = <<>>
    /\ scans' = scans + 1
    /\ UNCHANGED <<codecVars, indexVars, corpus, cls, walked, issues_detail,
                   frequency_cache, report>>

\* scan_corpus called again on the object: lines 62-64 set the locals anew
\* and rglob walks the directory from its start; nothing in scan_corpus
\* touches what __init__ created
Rescan ==
    /\ pc = "done"
    /\ scans < MaxScans
    /\ pc' = "scanning"
    /\ walked' = <<>>
    /\ total_files' = 0
    /\ valid_files' = 0
    /\ invalid_files' = <<>>
    /\ scans' = scans + 1
    /\ UNCHANGED <<codecVars, indexVars, corpus, cls, issues_detail,
                   frequency_cache, report>>

\* the set holding the latest date only
AddDateReplacing(dates, date) == {date}

\* self.issues[newspaper].add(date), line 88, on the set held so far
AddDate(dates, date) == dates \cup {date}

\* lines 86-95: the parsed record goes into every index dimension
StoreRecord(parsed) ==
    LET newspaper == parsed.newspaper
        year == parsed.year
        date == parsed.date
        library == parsed.library
    IN /\ data' = Put2(data, newspaper, year,
                       Append(Get2(data, newspaper, year, <<>>), parsed))
       /\ issues' = Put(issues, newspaper, AddDate(Get(issues, newspaper, {}), date))
       /\ pages_by_newspaper' = Increment(pages_by_newspaper, newspaper)
       /\ pages_by_year' = Increment(pages_by_year, year)
       /\ pages_by_newspaper_year' =
              Put2(pages_by_newspaper_year, newspaper, year,
                   Get2(pages_by_newspaper_year, newspaper, year, 0) + 1)
       /\ issues_by_year' =
              Put2(issues_by_year, newspaper, year,
                   Get2(issues_by_year, newspaper, year, {}) \cup {date})
       /\ libraries' =
              Put2(libraries, library, newspaper,
                   Get2(libraries, library, newspaper, 0) + 1)
       /\ library_issues' =
              Put2(library_issues, library, newspaper,
                   Get2(library_issues, library, newspaper, {}) \cup {date})
       /\ library_years' =
              Put2(library_years, library, newspaper,
                   Get2(library_years, library, newspaper, {}) \cup {year})

\* lines 74-97, dropping a rejected name instead of listing it
CountFileDropping(img_file, parsed) ==
    /\ total_files' = total_files + 1
    /\ IF parsed # None
       THEN /\ valid_files' = valid_files + 1
            /\ StoreRecord(parsed)
            /\ UNCHANGED invalid_files
       ELSE UNCHANGED <<indexVars, valid_files, invalid_files>>

\* lines 74-97: the file is counted and, by what its name parses to, stored
\* or listed as invalid
CountFile(img_file, parsed) ==
    /\ total_files' = total_files + 1
    /\ IF parsed # None
       THEN /\ valid_files' = valid_files + 1
            /\ StoreRecord(parsed)
            /\ UNCHANGED invalid_files
       ELSE /\ invalid_files' = Append(invalid_files, img_file)
            /\ UNCHANGED <<indexVars, valid_files>>

\* lines 67-97: one iteration of the walk, on the file rglob yields next
\* (rglob descends into subdirectories, so a name can be yielded again)
ScanFile(img_file) ==
    /\ pc = "scanning"
    /\ Len(walked) < MaxFiles
    /\ walked' = Append(walked, img_file)
    /\ IF lower(suffix(img_file)) \notin VALID_EXTENSIONS
       THEN UNCHANGED <<indexVars, total_files, valid_files, invalid_files>>
       ELSE CountFile(img_file, parse_filename(img_file))
    /\ UNCHANGED <<codecVars, corpus, cls, pc, issues_detail, frequency_cache,
                   scans, report>>

-----------------------------------------------------------------------------
(* Built-ins the analyses use: sorted(), sum(), max(), datetime            *)

\* ord(c) for the characters of a file name
Ord(c) ==
    CASE c = "-" -> 45 [] c = "." -> 46 [] c = "_" -> 95
      [] c \in Digit -> 48 + DigitVal(c)
      [] c = "A" -> 65 [] c = "B" -> 66 [] c = "C" -> 67 [] c = "D" -> 68
      [] c = "F" -> 70 [] c = "I" -> 73 [] c = "N" -> 78 [] c = "Q" -> 81
      [] c = "S" -> 83 [] c = "T" -> 84 [] c = "U" -> 85 [] c = "Z" -> 90
      [] c = "a" -> 97 [] c = "b" -> 98 [] c = "c" -> 99 [] c = "d" -> 100
      [] c = "e" -> 101 [] c = "f" -> 102 [] c = "g" -> 103 [] c = "i" -> 105
      [] c = "j" -> 106 [] c = "n" -> 110 [] c = "p" -> 112 [] c = "q" -> 113
      [] c = "s" -> 115 [] c = "t" -> 116 [] c = "u" -> 117 [] c = "x" -> 120
      [] c = "z" -> 122

\* a < b for str: lexicographic by code point
StrLess(a, b) ==
    \E k \in 1..(Len(b)) :
        /\ \A j \in 1..(k - 1) : j <= Len(a) /\ a[j] = b[j]
        /\ \/ k = Len(a) + 1
           \/ k <= Len(a) /\ Ord(a[k]) < Ord(b[k])

\* sorted(S) for a set of strings
RECURSIVE sorted(_)
sorted(S) ==
    IF S = {} THEN <<>>
    ELSE LET m == CHOOSE x \in S : \A y \in S : y = x \/ StrLess(x, y)
         IN <<m>> \o sorted(S \ {m})

\* sorted(S) for a set of integers
RECURSIVE sorted_ints(_)
sorted_ints(S) ==
    IF S = {} THEN <<>>
    ELSE LET m == CHOOSE x \in S : \A y \in S : x <= y
         IN <<m>> \o sorted_ints(S \ {m})

\* the list without its element at position k
Without(l, k) == SubSeq(l, 1, k - 1) \o SubSeq(l, k + 1, Len(l))

\* sorted(l) for a list of integers (repeats kept)
RECURSIVE sorted_list(_)
sorted_list(l) ==
    IF l = <<>> THEN <<>>
    ELSE LET k == CHOOSE i \in 1..Len(l) : \A j \in 1..Len(l) : l[i] <= l[j]
         IN <<l[k]>> \o sorted_list(Without(l, k))

RECURSIVE sum(_)
sum(l) == IF l = <<>> THEN 0 ELSE Head(l) + sum(Tail(l))

\* max(l) of a non-empty list
max(l) == CHOOSE x \in {l[i] : i \in 1..Len(l)} : \A j \in 1..Len(l) : l[j] <= x

\* set(l)
set(l) == {l[i] : i \in 1..Len(l)}

\* l.count(p)
count(l, p) == Cardinality({i \in 1..Len(l) : l[i] = p})

IsLeap(y) == y % 4 = 0 /\ (y % 100 # 0 \/ y % 400 = 0)

DaysInMonth(y, m) ==
    CASE m \in {1, 3, 5, 7, 8, 10, 12} -> 31
      [] m \in {4, 6, 9, 11} -> 30
      [] m = 2 -> IF IsLeap(y) THEN 29 ELSE 28

RECURSIVE DaysBeforeMonth(_, _)
DaysBeforeMonth(y, m) ==
    IF m = 1 THEN 0 ELSE DaysBeforeMonth(y, m - 1) + DaysInMonth(y, m - 1)

\* date.toordinal()
Ordinal(y, m, d) ==
    (y - 1) * 365 + ((y - 1) \div 4) - ((y - 1) \div 100) + ((y - 1) \div 400)
    + DaysBeforeMonth(y, m) + d

\* datetime.strptime(d, '%Y-%m-%d') of a "YYYY-MM-DD" key: ValueError unless
\* it names a day of the calendar
DateOf(y, m, d) ==
    IF y >= 1 /\ 1 <= m /\ m <= 12 /\ 1 <= d /\ d <= DaysInMonth(y, m)
    THEN [exc |-> "none", ordinal |-> Ordinal(y, m, d)]
    ELSE [exc |-> "ValueError", ordinal |-> 0]

DateOfParts(f) == DateOf(int(f[1]), int(f[2]), int(f[3]))

strptime(date) == DateOfParts(split(date, "-"))

\* [(date_objects[i+1] - date_objects[i]).days for i in range(len - 1)]
DayGaps(ords) == [i \in 1..(Len(ords) - 1) |-> ords[i + 1] - ords[i]]

\* a quotient of two integers compared with the literal p/q (q > 0)
Avg(total, n) == [num |-> total, den |-> n]

\* avg_gap < p/q where the code has <=
AvgLess(avg, p, q) == avg.num * q < p * avg.den

\* avg_gap <= p/q
AvgLeq(avg, p, q) == avg.num * q <= p * avg.den

-----------------------------------------------------------------------------
(* advanced_analyzer.py / excel_exporter.py: the extended scan_corpus      *)

\* issues_detail[newspaper][date].append(page) for each record of one list
RECURSIVE AppendPagesAscending(_, _, _)
\* a page is appended only where the issue holds no greater page before it
AppendPagesAscending(detail, newspaper, records) ==
    IF records = <<>> THEN detail
    ELSE AppendPagesAscending(
             IF \E i \in DOMAIN Get2(detail, newspaper, Head(records).date, <<>>) :
                    Get2(detail, newspaper, Head(records).date, <<>>)[i] > Head(records).page
             THEN detail
             ELSE Put2(detail, newspaper, Head(records).date,
                       Append(Get2(detail, newspaper, Head(records).date, <<>>),
                              Head(records).page)),
             newspaper, Tail(records))

RECURSIVE AppendPages(_, _, _)
AppendPages(detail, newspaper, records) ==
    IF records = <<>> THEN detail
    ELSE AppendPages(Put2(detail, newspaper, Head(records).date,
                          Append(Get2(detail, newspaper, Head(records).date, <<>>),
                                 Head(records).page)),
                     newspaper, Tail(records))

MinInt(S) == CHOOSE x \in S : \A z \in S : x <= z

RECURSIVE DetailOfYears(_, _, _, _)
DetailOfYears(detail, newspaper, byYear, years) ==
    IF years = {} THEN detail
    ELSE DetailOfYears(AppendPages(detail, newspaper, byYear[MinInt(years)]),
                       newspaper, byYear, years \ {MinInt(years)})

AnyOf(S) == CHOOSE x \in S : TRUE

\* for newspaper in self.data: for year in ...: for page_info in ...
\* (lists of different (newspaper, year) feed different issues, so the
\* order in which they are visited does not show in the result)
RECURSIVE BuildDetail(_, _, _)
BuildDetail(detail, dat, newspapers) ==
    IF newspapers = {} THEN detail
    ELSE BuildDetail(DetailOfYears(detail, AnyOf(newspapers), dat[AnyOf(newspapers)],
                                   DOMAIN dat[AnyOf(newspapers)]),
                     dat, newspapers \ {AnyOf(newspapers)})

\* the newspaper a walked file inserts into self.issues, if any
InsertedBy(before, f, parsed) ==
    IF lower(suffix(f)) \in VALID_EXTENSIONS /\ parsed # None
       /\ parsed.newspaper \notin set(before)
    THEN Append(before, parsed.newspaper)
    ELSE before

\* the keys of self.issues in insertion order: each newspaper at the first
\* valid file that named it
RECURSIVE InsertionOrder(_)
InsertionOrder(files) ==
    IF files = <<>> THEN <<>>
    ELSE InsertedBy(InsertionOrder(SubSeq(files, 1, Len(files) - 1)),
                    files[Len(files)], parse_filename(files[Len(files)]))

\* [datetime.strptime(d, '%Y-%m-%d') for d in dates]
DateObjects(dates) == [i \in 1..Len(dates) |-> strptime(dates[i])]

AnyInvalid(parsed) == \E i \in 1..Len(parsed) : parsed[i].exc # "none"

Ordinals(parsed) == [i \in 1..Len(parsed) |-> parsed[i].ordinal]

\* excel_exporter.py, _calculate_frequency, lines 65-74
ExporterClass(avg_gap) ==
    IF AvgLeq(avg_gap, 3, 2) THEN [frequency |-> "Daily", expected_gap |-> 1]
    ELSE IF AvgLeq(avg_gap, 4, 1) THEN [frequency |-> "2-3x per week", expected_gap |-> 3]
    ELSE IF AvgLeq(avg_gap, 8, 1) THEN [frequency |-> "Weekly", expected_gap |-> 7]
    ELSE IF AvgLeq(avg_gap, 16, 1) THEN [frequency |-> "Bi-weekly", expected_gap |-> 14]
    ELSE [frequency |-> "Monthly/Irregular", expected_gap |-> 30]

\* lines 76-80
FrequencyEntry(avg_gap, c) ==
    [frequency |-> c.frequency, avg_gap |-> avg_gap, expected_gap |-> c.expected_gap]

\* lines 61-80
FrequencyOfGaps(gaps) ==
    FrequencyEntry(Avg(sum(gaps), Len(gaps)),
                   ExporterClass(Avg(sum(gaps), Len(gaps))))

\* lines 60-80
FrequencyOfParsed(parsed) ==
    IF AnyInvalid(parsed) THEN [exc |-> "ValueError", entry |-> None]
    ELSE [exc |-> "none", entry |-> FrequencyOfGaps(DayGaps(Ordinals(parsed)))]

\* lines 52-80
FrequencyOfDates(dates) ==
    IF Len(dates) < 2
    THEN [exc |-> "none",
          entry |-> [frequency |-> "Unknown", avg_gap |-> Avg(0, 1), expected_gap |-> 30]]
    ELSE FrequencyOfParsed(DateObjects(dates))

\* _calculate_frequency(newspaper): the entry written, or the exception
calculate_frequency(dateset) == FrequencyOfDates(sorted(dateset))

RECURSIVE CalculateFrequencies(_, _)

FrequenciesAfter(cache, newspapers, r) ==
    IF r.exc # "none" THEN [exc |-> r.exc, cache |-> cache]
    ELSE CalculateFrequencies(Put(cache, Head(newspapers), r.entry), Tail(newspapers))

\* for newspaper in self.issues: self._calculate_frequency(newspaper)
CalculateFrequencies(cache, newspapers) ==
    IF newspapers = <<>> THEN [exc |-> "none", cache |-> cache]
    ELSE FrequenciesAfter(cache, newspapers,
                          calculate_frequency(issues[Head(newspapers)]))

\* ConsolidatedExporter.scan_corpus, lines 44-46: ends normally or raises
EndWithFrequencies(r) ==
    /\ frequency_cache' = r.cache
    /\ pc' = IF r.exc = "none" THEN "done" ELSE "raised"

\* the walk is over: scan_corpus prints its totals and the subclass builds
\* issues_detail (and, in ConsolidatedExporter, the frequency cache);
\* LibraryHoldingsReporter inherits scan_corpus as it is
EndScan ==
    /\ pc = "scanning"
    /\ issues_detail' = IF cls \in {"LibraryHoldingsReporter", "NewspaperCorpusAnalyzer"}
                        THEN issues_detail
                        ELSE BuildDetail(issues_detail, data, DOMAIN data)
    /\ IF cls = "ConsolidatedExporter"
       THEN EndWithFrequencies(CalculateFrequencies(frequency_cache,
                                                    InsertionOrder(walked)))
       ELSE /\ pc' = "done"
            /\ UNCHANGED frequency_cache
    /\ UNCHANGED <<codecVars, indexVars, corpus, cls, walked, total_files,
                   valid_files, invalid_files, scans, report>>

-----------------------------------------------------------------------------
(* analyzer.py: analyze_missing_issues                                     *)

\* lines 314-328
AnalyzerClass(avg_gap) ==
    IF AvgLeq(avg_gap, 3, 2) THEN [freq |-> "Daily", expected_gap |-> 1]
    ELSE IF AvgLeq(avg_gap, 4, 1) THEN [freq |-> "2-3 times per week", expected_gap |-> 3]
    ELSE IF AvgLeq(avg_gap, 8, 1) THEN [freq |-> "Weekly", expected_gap |-> 7]
    ELSE IF AvgLeq(avg_gap, 16, 1) THEN [freq |-> "Bi-weekly", expected_gap |-> 14]
    ELSE [freq |-> "Monthly or irregular", expected_gap |-> 30]

\* line 337 with >= for >
IsSignificantInclusive(gap_days, expected_gap) == gap_days >= expected_gap * 2

\* line 337: whether the gap is listed
IsSignificant(gap_days, expected_gap) == gap_days > expected_gap * 2

\* max(0, n)
Max0(n) == IF n > 0 THEN n ELSE 0

\* the quotient less two, where the code has the quotient less one
MissingEstimateExclusive(gap_days, expected_gap) == Max0((gap_days \div expected_gap) - 2)

\* line 338: max(0, int(gap_days / expected_gap) - 1), the quotient truncated
MissingEstimate(gap_days, expected_gap) == Max0((gap_days \div expected_gap) - 1)

\* lines 334-344
RECURSIVE SignificantGaps(_, _, _, _)
SignificantGaps(dates, gaps, expected_gap, i) ==
    IF i > Len(gaps) THEN <<>>
    ELSE (IF IsSignificant(gaps[i], expected_gap)
          THEN << [from |-> dates[i], to |-> dates[i + 1], days |-> gaps[i],
                   estimated_missing |-> MissingEstimate(gaps[i], expected_gap)] >>
          ELSE <<>>)
         \o SignificantGaps(dates, gaps, expected_gap, i + 1)

\* line 347: sum(g['estimated_missing'] for g in significant_gaps)
TotalEstimate(significant_gaps) ==
    sum([i \in 1..Len(significant_gaps) |-> significant_gaps[i].estimated_missing])

\* what the method prints for one newspaper
AnalysisRow(newspaper, dates, gaps, avg_gap, c, significant_gaps) ==
    [newspaper |-> newspaper,
     dates |-> dates,
     gaps |-> gaps,
     freq |-> c.freq,
     avg_gap |-> avg_gap,
     expected_gap |-> c.expected_gap,
     total_issues |-> Len(dates),
     significant_gaps |-> significant_gaps,
     total_estimated_missing |-> TotalEstimate(significant_gaps)]

\* lines 313-347
AnalysisOfClass(newspaper, dates, gaps, avg_gap, c) ==
    AnalysisRow(newspaper, dates, gaps, avg_gap, c,
                SignificantGaps(dates, gaps, c.expected_gap, 1))

AnalysisOfAvg(newspaper, dates, gaps, avg_gap) ==
    AnalysisOfClass(newspaper, dates, gaps, avg_gap, AnalyzerClass(avg_gap))

\* line 311: avg_gap = sum(gaps) / len(gaps) if gaps else 0
AnalysisOfGaps(newspaper, dates, gaps) ==
    AnalysisOfAvg(newspaper, dates, gaps,
                  IF Len(gaps) > 0 THEN Avg(sum(gaps), Len(gaps)) ELSE Avg(0, 1))

\* lines 306-310
AnalysisOfParsed(newspaper, dates, parsed) ==
    IF AnyInvalid(parsed) THEN [exc |-> "ValueError", row |-> None]
    ELSE [exc |-> "none",
          row |-> AnalysisOfGaps(newspaper, dates, DayGaps(Ordinals(parsed)))]

\* lines 300-306
AnalysisOfDates(newspaper, dates) ==
    IF Len(dates) < 2 THEN [exc |-> "none", row |-> None]
    ELSE AnalysisOfParsed(newspaper, dates, DateObjects(dates))

\* lines 297-363, one newspaper: skipped (row None), reported, or ValueError
AnalyzeNewspaper(newspaper, dateset) == AnalysisOfDates(newspaper, sorted(dateset))

RECURSIVE AnalyzeLoop(_, _)

AnalyzeAfter(newspapers, rows, r) ==
    IF r.exc # "none" THEN [exc |-> r.exc, rows |-> rows]
    ELSE AnalyzeLoop(Tail(newspapers),
                     IF r.row = None THEN rows ELSE Append(rows, r.row))

\* for newspaper in sorted(self.data.keys()): ...
AnalyzeLoop(newspapers, rows) ==
    IF newspapers = <<>> THEN [exc |-> "none", rows |-> rows]
    ELSE AnalyzeAfter(newspapers, rows,
                      AnalyzeNewspaper(Head(newspapers), issues[Head(newspapers)]))

AnalysisReport(op, r) == [op |-> op, exc |-> r.exc, rows |-> r.rows]

\* analyze_missing_issues(): what it printed, newspaper by newspaper
analyze_missing_issues ==
    /\ pc = "done"
    /\ report' = AnalysisReport("analyze_missing_issues",
                                AnalyzeLoop(sorted(DOMAIN data), <<>>))
    /\ UNCHANGED <<codecVars, indexVars, scanVars>>

-----------------------------------------------------------------------------
(* advanced_analyzer.py: check_issue_completeness, export_issues_csv,      *)
(* export_missing_issues_csv                                               *)

\* lines 49-61 with count(p) >= 1 for count(p) > 1
CheckSortedCountingSingles(pages) ==
    [total_pages |-> Len(pages),
     max_page |-> max(pages),
     missing |-> sorted_ints((1..max(pages)) \ set(pages)),
     duplicates |-> sorted_ints({p \in set(pages) : count(pages, p) >= 1})]

\* lines 49-61, on the sorted page list
CheckSorted(pages) ==
    [total_pages |-> Len(pages),
     max_page |-> max(pages),
     missing |-> sorted_ints((1..max(pages)) \ set(pages)),
     duplicates |-> sorted_ints({p \in set(pages) : count(pages, p) > 1})]

\* lines 46-62: one issue's page list
IssueCheck(page_list) == CheckSorted(sorted_list(page_list))

\* lines 55-62
ProblemOf(date, c) ==
    IF c.missing # <<>> \/ c.duplicates # <<>>
    THEN << [date |-> date, total_pages |-> c.total_pages, max_page |-> c.max_page,
             missing |-> c.missing, duplicates |-> c.duplicates] >>
    ELSE <<>>

\* newspaper_problems: the issues with a missing or a repeated page
RECURSIVE NewspaperProblems(_, _)
NewspaperProblems(byDate, dates) ==
    IF dates = <<>> THEN <<>>
    ELSE ProblemOf(Head(dates), IssueCheck(byDate[Head(dates)]))
         \o NewspaperProblems(byDate, Tail(dates))

AllProblems ==
    [n \in DOMAIN issues_detail |->
         NewspaperProblems(issues_detail[n], sorted(DOMAIN issues_detail[n]))]

CompletenessReport(problems, newspapers) ==
    [op |-> "check_issue_completeness", exc |-> "none", problems |-> problems,
     issues_with_problems |->
         sum([i \in 1..Len(newspapers) |-> Len(problems[newspapers[i]])])]

check_issue_completeness ==
    /\ pc = "done"
    /\ cls = "AdvancedCorpusAnalyzer"
    /\ report' = CompletenessReport(AllProblems, sorted(DOMAIN issues_detail))
    /\ UNCHANGED <<codecVars, indexVars, scanVars>>

\* lines 187-205, on the sorted page list and the split date
IssueRowOf(newspaper, date, pages, ymd) ==
    [newspaper |-> newspaper, date |-> date,
     year |-> int(ymd[1]), month |-> int(ymd[2]), day |-> int(ymd[3]),
     total_pages |-> Len(pages),
     max_page |-> max(pages),
     has_gaps |-> Cardinality((1..max(pages)) \ set(pages)) > 0,
     has_duplicates |-> Len(pages) # Cardinality(set(pages))]

\* lines 186-205: one row of corpus_issues.csv
IssueRow(newspaper, date, page_list) ==
    IssueRowOf(newspaper, date, sorted_list(page_list), split(date, "-"))

RECURSIVE IssueRowsOf(_, _)
IssueRowsOf(newspaper, dates) ==
    IF dates = <<>> THEN <<>>
    ELSE << IssueRow(newspaper, Head(dates), issues_detail[newspaper][Head(dates)]) >>
         \o IssueRowsOf(newspaper, Tail(dates))

RECURSIVE IssueRows(_)
IssueRows(newspapers) ==
    IF newspapers = <<>> THEN <<>>
    ELSE IssueRowsOf(Head(newspapers), sorted(DOMAIN issues_detail[Head(newspapers)]))
         \o IssueRows(Tail(newspapers))

export_issues_csv ==
    /\ pc = "done"
    /\ cls = "AdvancedCorpusAnalyzer"
    /\ report' = [op |-> "export_issues_csv", exc |-> "none",
                  rows |-> IssueRows(sorted(DOMAIN issues_detail))]
    /\ UNCHANGED <<codecVars, indexVars, scanVars>>

\* lines 268-282
CsvClass(avg_gap) ==
    IF AvgLeq(avg_gap, 3, 2) THEN [freq |-> "Daily", expected_gap |-> 1]
    ELSE IF AvgLeq(avg_gap, 4, 1) THEN [freq |-> "2-3x per week", expected_gap |-> 3]
    ELSE IF AvgLeq(avg_gap, 8, 1) THEN [freq |-> "Weekly", expected_gap |-> 7]
    ELSE IF AvgLeq(avg_gap, 16, 1) THEN [freq |-> "Bi-weekly", expected_gap |-> 14]
    ELSE [freq |-> "Monthly/Irregular", expected_gap |-> 30]

\* lines 285-293: significant_gaps_count over gaps i..
RECURSIVE CsvGapCount(_, _, _)
CsvGapCount(gaps, expected_gap, i) ==
    IF i > Len(gaps) THEN 0
    ELSE (IF gaps[i] > expected_gap * 2 THEN 1 ELSE 0)
         + CsvGapCount(gaps, expected_gap, i + 1)

\* lines 285-293: total_estimated_missing over gaps i..
RECURSIVE CsvMissingTotal(_, _, _)
CsvMissingTotal(gaps, expected_gap, i) ==
    IF i > Len(gaps) THEN 0
    ELSE (IF gaps[i] > expected_gap * 2
          THEN Max0((gaps[i] \div expected_gap) - 1)
          ELSE 0)
         + CsvMissingTotal(gaps, expected_gap, i + 1)

\* lines 295-303
CsvRow(newspaper, dates, gaps, avg_gap, c) ==
    [newspaper |-> newspaper,
     dates |-> dates,
     gaps |-> gaps,
     total_issues |-> Len(dates),
     freq |-> c.freq,
     avg_gap |-> avg_gap,
     expected_gap |-> c.expected_gap,
     significant_gaps_count |-> CsvGapCount(gaps, c.expected_gap, 1),
     total_estimated_missing |-> CsvMissingTotal(gaps, c.expected_gap, 1)]

CsvOfAvg(newspaper, dates, gaps, avg_gap) ==
    CsvRow(newspaper, dates, gaps, avg_gap, CsvClass(avg_gap))

\* line 265
CsvOfGaps(newspaper, dates, gaps) ==
    CsvOfAvg(newspaper, dates, gaps,
             IF Len(gaps) > 0 THEN Avg(sum(gaps), Len(gaps)) ELSE Avg(0, 1))

\* lines 262-264
CsvOfParsed(newspaper, dates, parsed) ==
    IF AnyInvalid(parsed) THEN [exc |-> "ValueError", row |-> None]
    ELSE [exc |-> "none", row |-> CsvOfGaps(newspaper, dates, DayGaps(Ordinals(parsed)))]

\* lines 259-262
CsvOfDates(newspaper, dates) ==
    IF Len(dates) < 2 THEN [exc |-> "none", row |-> None]
    ELSE CsvOfParsed(newspaper, dates, DateObjects(dates))

\* lines 257-303, one newspaper
CsvNewspaper(newspaper, dateset) == CsvOfDates(newspaper, sorted(dateset))

RECURSIVE CsvLoop(_, _)

CsvAfter(newspapers, rows, r) ==
    IF r.exc # "none" THEN [exc |-> r.exc, rows |-> rows]
    ELSE CsvLoop(Tail(newspapers), IF r.row = None THEN rows ELSE Append(rows, r.row))

CsvLoop(newspapers, rows) ==
    IF newspapers = <<>> THEN [exc |-> "none", rows |-> rows]
    ELSE CsvAfter(newspapers, rows,
                  CsvNewspaper(Head(newspapers), issues[Head(newspapers)]))

export_missing_issues_csv ==
    /\ pc = "done"
    /\ cls = "AdvancedCorpusAnalyzer"
    /\ report' = AnalysisReport("export_missing_issues_csv",
                                CsvLoop(sorted(DOMAIN data), <<>>))
    /\ UNCHANGED <<codecVars, indexVars, scanVars>>

-----------------------------------------------------------------------------
(* library_reporter.py: generate_missing_issues_report                     *)

\* lines 161-175
ReporterClass(avg_gap) ==
    IF AvgLeq(avg_gap, 3, 2) THEN [freq |-> "Daily", expected_gap |-> 1]
    ELSE IF AvgLeq(avg_gap, 4, 1) THEN [freq |-> "2-3 times per week", expected_gap |-> 3]
    ELSE IF AvgLeq(avg_gap, 8, 1) THEN [freq |-> "Weekly", expected_gap |-> 7]
    ELSE IF AvgLeq(avg_gap, 16, 1) THEN [freq |-> "Bi-weekly", expected_gap |-> 14]
    ELSE [freq |-> "Monthly or irregular", expected_gap |-> 30]

\* the share of the issues estimated missing, where the code has the share
\* of the issues observed
EstimatedCompletenessOfMissing(observed, total_estimated_missing) ==
    Avg(total_estimated_missing * 100, observed + total_estimated_missing)

\* line 205 (and excel_exporter.py line 478):
\* len(dates) / (len(dates) + total_estimated_missing) * 100
EstimatedCompleteness(observed, total_estimated_missing) ==
    Avg(observed * 100, observed + total_estimated_missing)

\* lines 222-225: years_data, the number of issue dates of each year
YearsData(dates) ==
    [y \in {int(SubSeq(dates[i], 1, 4)) : i \in 1..Len(dates)} |->
        Cardinality({i \in 1..Len(dates) : int(SubSeq(dates[i], 1, 4)) = y})]

\* lines 177-228: what the report writes for one newspaper; the
\* completeness figure is written only when there are significant gaps
ReportRow(newspaper, dates, gaps, avg_gap, c, significant_gaps) ==
    [newspaper |-> newspaper,
     dates |-> dates,
     gaps |-> gaps,
     total_issues |-> Len(dates),
     freq |-> c.freq,
     avg_gap |-> avg_gap,
     min_gap |-> MinInt(set(gaps)),
     max_gap |-> max(gaps),
     expected_gap |-> c.expected_gap,
     significant_gaps |-> significant_gaps,
     total_estimated_missing |-> TotalEstimate(significant_gaps),
     completeness |-> IF significant_gaps # <<>>
                      THEN EstimatedCompleteness(Len(dates), TotalEstimate(significant_gaps))
                      ELSE None,
     years_data |-> YearsData(dates)]

\* lines 186-196 are lines 334-344 of analyzer.py
ReportOfClass(newspaper, dates, gaps, avg_gap, c) ==
    ReportRow(newspaper, dates, gaps, avg_gap, c,
              SignificantGaps(dates, gaps, c.expected_gap, 1))

ReportOfAvg(newspaper, dates, gaps, avg_gap) ==
    ReportOfClass(newspaper, dates, gaps, avg_gap, ReporterClass(avg_gap))

\* lines 154-156
ReportOfGaps(newspaper, dates, gaps) ==
    ReportOfAvg(newspaper, dates, gaps,
                IF Len(gaps) > 0 THEN Avg(sum(gaps), Len(gaps)) ELSE Avg(0, 1))

\* line 151
ReportOfParsed(newspaper, dates, parsed) ==
    IF AnyInvalid(parsed) THEN [exc |-> "ValueError", row |-> None]
    ELSE [exc |-> "none",
          row |-> ReportOfGaps(newspaper, dates, DayGaps(Ordinals(parsed)))]

\* lines 142-151
ReportOfDates(newspaper, dates) ==
    IF Len(dates) < 2 THEN [exc |-> "none", row |-> None]
    ELSE ReportOfParsed(newspaper, dates, DateObjects(dates))

\* lines 140-230, one newspaper
ReportNewspaper(newspaper, dateset) == ReportOfDates(newspaper, sorted(dateset))

RECURSIVE ReportLoop(_, _)

ReportAfter(newspapers, rows, r) ==
    IF r.exc # "none" THEN [exc |-> r.exc, rows |-> rows]
    ELSE ReportLoop(Tail(newspapers), IF r.row = None THEN rows ELSE Append(rows, r.row))

\* for newspaper in sorted(self.data.keys()): ...
ReportLoop(newspapers, rows) ==
    IF newspapers = <<>> THEN [exc |-> "none", rows |-> rows]
    ELSE ReportAfter(newspapers, rows,
                     ReportNewspaper(Head(newspapers), issues[Head(newspapers)]))

\* generate_missing_issues_report(): what it wrote, newspaper by newspaper
generate_missing_issues_report ==
    /\ pc = "done"
    /\ cls = "LibraryHoldingsReporter"
    /\ report' = AnalysisReport("generate_missing_issues_report",
                                ReportLoop(sorted(DOMAIN data), <<>>))
    /\ UNCHANGED <<codecVars, indexVars, scanVars>>

-----------------------------------------------------------------------------
(* examples/example_usage.py: example_missing_issues_estimate              *)

\* lines 143-152
ExampleClass(avg_gap) ==
    IF AvgLeq(avg_gap, 3, 2) THEN [freq |-> "Daily", expected_gap |-> 1]
    ELSE IF AvgLeq(avg_gap, 8, 1) THEN [freq |-> "Weekly", expected_gap |-> 7]
    ELSE [freq |-> "Monthly/Irregular", expected_gap |-> 30]

\* lines 154-162 are lines 285-293 of advanced_analyzer.py
ExampleOfAvg(newspaper, dates, gaps, avg_gap) ==
    CsvRow(newspaper, dates, gaps, avg_gap, ExampleClass(avg_gap))

\* lines 138-140
ExampleOfGaps(newspaper, dates, gaps) ==
    ExampleOfAvg(newspaper, dates, gaps,
                 IF Len(gaps) > 0 THEN Avg(sum(gaps), Len(gaps)) ELSE Avg(0, 1))

\* line 135
ExampleOfParsed(newspaper, dates, parsed) ==
    IF AnyInvalid(parsed) THEN [exc |-> "ValueError", rows |-> <<>>]
    ELSE [exc |-> "none",
          rows |-> << ExampleOfGaps(newspaper, dates, DayGaps(Ordinals(parsed))) >>]

\* line 134
ExampleOfDates(newspaper, dates) == ExampleOfParsed(newspaper, dates, DateObjects(dates))

\* example_missing_issues_estimate(corpus_path, newspaper_code), after the
\* scan_corpus() of its line 128
example_missing_issues_estimate(newspaper_code) ==
    /\ pc = "done"
    /\ cls = "NewspaperCorpusAnalyzer"
    /\ report' = AnalysisReport("example_missing_issues_estimate",
                                IF newspaper_code \notin DOMAIN issues
                                THEN [exc |-> "none", rows |-> <<>>]
                                ELSE ExampleOfDates(newspaper_code,
                                                    sorted(issues[newspaper_code])))
    /\ UNCHANGED <<codecVars, indexVars, scanVars>>

-----------------------------------------------------------------------------
(* library_reporter.py: generate_library_holdings_report and               *)
(* generate_combined_report                                                *)

\* the attributes __init__ gives the object (LibraryHoldingsReporter has no
\* __init__ of its own and scan_corpus adds none)
Attributes ==
    {"corpus_root", "data", "issues", "pages_by_newspaper", "pages_by_year",
     "pages_by_newspaper_year", "issues_by_year", "libraries", "library_issues",
     "library_years"}

\* lines 37-47: the summary of one library
SummaryRow(library, nps) ==
    [library |-> library,
     total_newspapers |-> Len(nps),
     total_issues |-> sum([i \in 1..Len(nps) |->
                             Cardinality(library_issues[library][nps[i]])]),
     total_pages |-> sum([i \in 1..Len(nps) |-> libraries[library][nps[i]]])]

\* lines 37-72: the summaries are written, and the detailed holdings read
\* self.shelfmarks for the first newspaper of the first library
HoldingsReport(libs) ==
    [exc |-> IF libs # <<>> /\ "shelfmarks" \notin Attributes
             THEN "AttributeError" ELSE "none",
     rows |-> [i \in 1..Len(libs) |-> SummaryRow(libs[i], sorted(DOMAIN libraries[libs[i]]))]]

\* generate_library_holdings_report(): what it wrote before it ended
generate_library_holdings_report ==
    /\ pc = "done"
    /\ cls = "LibraryHoldingsReporter"
    /\ report' = AnalysisReport("generate_library_holdings_report",
                                HoldingsReport(sorted(DOMAIN libraries)))
    /\ UNCHANGED <<codecVars, indexVars, scanVars>>

\* lines 242-243: the missing issues report follows the holdings report
CombinedReport(holdings) ==
    IF holdings.exc # "none" THEN holdings
    ELSE ReportLoop(sorted(DOMAIN data), <<>>)

\* generate_combined_report(), after its scan_corpus() of line 240
generate_combined_report ==
    /\ pc = "done"
    /\ cls = "LibraryHoldingsReporter"
    /\ report' = AnalysisReport("generate_combined_report",
                                CombinedReport(HoldingsReport(sorted(DOMAIN libraries))))
    /\ UNCHANGED <<codecVars, indexVars, scanVars>>

-----------------------------------------------------------------------------
(* excel_exporter.py: export_consolidated_csv                              *)

\* len(pages) / max_page * 100, every page held counted
CompletenessPctOfAll(pages, max_page) ==
    IF max_page > 0 THEN Avg(Len(pages) * 100, max_page) ELSE Avg(100, 1)

\* line 140: (len(set(pages)) / max_page * 100) if max_page > 0 else 100
\* (the row holds it rounded to one decimal)
CompletenessPct(pages, max_page) ==
    IF max_page > 0 THEN Avg(Cardinality(set(pages)) * 100, max_page) ELSE Avg(100, 1)

\* lines 144-147: the libraries of the pages of the issue
IssueLibraries(page_data, date) ==
    {page_data[i].library : i \in {j \in 1..Len(page_data) : page_data[j].date = date}}

\* lines 135-141 and 152-176, on max(pages) and the libraries
ConsolidatedRowOf(newspaper, date, ymd, pages, max_page, issue_libraries) ==
    [newspaper |-> newspaper, date |-> date,
     year |-> ymd[1], month |-> ymd[2], day |-> ymd[3],
     pages |-> pages,
     total_pages |-> Len(pages),
     missing_pages |-> (1..max_page) \ set(pages),
     has_missing |-> Cardinality((1..max_page) \ set(pages)) > 0,
     has_duplicates |-> Len(pages) # Cardinality(set(pages)),
     all_libraries |-> sorted(issue_libraries),
     is_complete |-> /\ ~(Cardinality((1..max_page) \ set(pages)) > 0)
                     /\ ~(Len(pages) # Cardinality(set(pages))),
     completeness_pct |-> CompletenessPct(pages, max_page)]

\* line 130: year, month, day = map(int, date.split('-'))
ConsolidatedRowAt(newspaper, date, ymd, pages) ==
    ConsolidatedRowOf(newspaper, date, ymd, pages, max(pages),
                      IssueLibraries(Get2(data, newspaper, ymd[1], <<>>), date))

\* lines 126-176: one row of the consolidated csv
ConsolidatedRow(newspaper, date, ymd, page_list) ==
    ConsolidatedRowAt(newspaper, date, <<int(ymd[1]), int(ymd[2]), int(ymd[3])>>,
                      sorted_list(page_list))

RECURSIVE ConsolidatedRowsOf(_, _)
ConsolidatedRowsOf(newspaper, dates) ==
    IF dates = <<>> THEN <<>>
    ELSE << ConsolidatedRow(newspaper, Head(dates), split(Head(dates), "-"),
                            issues_detail[newspaper][Head(dates)]) >>
         \o ConsolidatedRowsOf(newspaper, Tail(dates))

RECURSIVE ConsolidatedRows(_)
ConsolidatedRows(newspapers) ==
    IF newspapers = <<>> THEN <<>>
    ELSE ConsolidatedRowsOf(Head(newspapers), sorted(DOMAIN issues_detail[Head(newspapers)]))
         \o ConsolidatedRows(Tail(newspapers))

export_consolidated_csv ==
    /\ pc = "done"
    /\ cls = "ConsolidatedExporter"
    /\ report' = [op |-> "export_consolidated_csv", exc |-> "none",
                  rows |-> ConsolidatedRows(sorted(DOMAIN issues_detail))]
    /\ UNCHANGED <<codecVars, indexVars, scanVars>>

-----------------------------------------------------------------------------
(* excel_exporter.py: _create_missing_issues_sheet                         *)

\* lines 480-489: one row of the Missing_Issues sheet (Avg_Gap_Days and
\* Completeness_Pct are written rounded to one decimal)
SheetRow(newspaper, dates, gaps, freq_info, significant_gaps, total_estimated_missing) ==
    [newspaper |-> newspaper,
     dates |-> dates,
     gaps |-> gaps,
     total_issues |-> Len(dates),
     freq |-> freq_info.frequency,
     avg_gap |-> freq_info.avg_gap,
     expected_gap |-> freq_info.expected_gap,
     significant_gaps_count |-> significant_gaps,
     total_estimated_missing |-> total_estimated_missing,
     completeness |-> IF total_estimated_missing > 0
                      THEN EstimatedCompleteness(Len(dates), total_estimated_missing)
                      ELSE Avg(100, 1)]

\* lines 468-476 are lines 285-293 of advanced_analyzer.py
SheetOfGaps(newspaper, dates, freq_info, gaps) ==
    SheetRow(newspaper, dates, gaps, freq_info,
             CsvGapCount(gaps, freq_info.expected_gap, 1),
             CsvMissingTotal(gaps, freq_info.expected_gap, 1))

\* line 466
SheetOfParsed(newspaper, dates, freq_info, parsed) ==
    IF AnyInvalid(parsed) THEN [exc |-> "ValueError", row |-> None]
    ELSE [exc |-> "none",
          row |-> SheetOfGaps(newspaper, dates, freq_info, DayGaps(Ordinals(parsed)))]

\* the sheet with only the newspapers without any date left out
SheetOfDatesUnguarded(newspaper, dates) ==
    IF Len(dates) < 1 THEN [exc |-> "none", row |-> None]
    ELSE IF newspaper \notin DOMAIN frequency_cache
    THEN [exc |-> "KeyError", row |-> None]
    ELSE SheetOfParsed(newspaper, dates, frequency_cache[newspaper], DateObjects(dates))

\* lines 461-466; the cache has an entry for every newspaper of the index
SheetOfDates(newspaper, dates) ==
    IF Len(dates) < 2 THEN [exc |-> "none", row |-> None]
    ELSE IF newspaper \notin DOMAIN frequency_cache
    THEN [exc |-> "KeyError", row |-> None]
    ELSE SheetOfParsed(newspaper, dates, frequency_cache[newspaper], DateObjects(dates))

\* lines 460-489, one newspaper
SheetNewspaper(newspaper, dateset) == SheetOfDates(newspaper, sorted(dateset))

RECURSIVE SheetLoop(_, _)

SheetAfter(newspapers, rows, r) ==
    IF r.exc # "none" THEN [exc |-> r.exc, rows |-> rows]
    ELSE SheetLoop(Tail(newspapers), IF r.row = None THEN rows ELSE Append(rows, r.row))

\* for newspaper in sorted(self.issues.keys()): ...
SheetLoop(newspapers, rows) ==
    IF newspapers = <<>> THEN [exc |-> "none", rows |-> rows]
    ELSE SheetAfter(newspapers, rows,
                    SheetNewspaper(Head(newspapers), issues[Head(newspapers)]))

\* _create_missing_issues_sheet(wb): the rows appended below the header
create_missing_issues_sheet ==
    /\ pc = "done"
    /\ cls = "ConsolidatedExporter"
    /\ report' = AnalysisReport("create_missing_issues_sheet",
                                SheetLoop(sorted(DOMAIN issues), <<>>))
    /\ UNCHANGED <<codecVars, indexVars, scanVars>>

-----------------------------------------------------------------------------
(* analyzer.py: print_newspaper_year_matrix, print_library_statistics,     *)
(* print_detailed_library_holdings, with every read of the index made as   *)
(* the defaultdict makes it                                                *)

\* the years of every newspaper, line 184
AllYears(dat) == sorted_ints(UNION {DOMAIN dat[n] : n \in DOMAIN dat})

\* d[newspaper][year], which inserts the year where the newspaper lacks it
MatrixCellIndexed(d, newspaper, year) == Touch2(d, newspaper, year, 0)

\* line 197: self.pages_by_newspaper_year[newspaper].get(year, 0) reads the
\* outer mapping as a defaultdict and the inner one with get()
MatrixCell(d, newspaper, year) == Touch(d, newspaper, EmptyMap)

RECURSIVE MatrixRow(_, _, _)
\* lines 196-201: the cells of one newspaper
MatrixRow(d, newspaper, years) ==
    IF years = <<>> THEN d
    ELSE MatrixRow(MatrixCell(d, newspaper, Head(years)), newspaper, Tail(years))

RECURSIVE MatrixRows(_, _, _)
\* lines 194-201
MatrixRows(d, newspapers, years) ==
    IF newspapers = <<>> THEN d
    ELSE MatrixRows(MatrixRow(d, Head(newspapers), years), Tail(newspapers), years)

RECURSIVE ReadKeys(_, _, _)
\* d[k] read for every k of keys, in turn
ReadKeys(d, keys, default) ==
    IF keys = <<>> THEN d
    ELSE ReadKeys(Touch(d, Head(keys), default), Tail(keys), default)

\* what the matrix shows: a row of page counts for each newspaper, with its
\* total, and the totals of the years
MatrixShown(newspapers, years) ==
    [ rows |-> [i \in 1..Len(newspapers) |->
                  [ newspaper |-> newspapers[i],
                    pages |-> [j \in 1..Len(years) |->
                                 Get2(pages_by_newspaper_year, newspapers[i], years[j], 0)],
                    total |-> Get(pages_by_newspaper, newspapers[i], 0) ]],
      totals |-> [j \in 1..Len(years) |-> Get(pages_by_year, years[j], 0)] ]

MatrixPrint(newspapers, years) ==
    /\ report' = [op |-> "print_newspaper_year_matrix", exc |-> "none",
                  rows |-> MatrixShown(newspapers, years).rows,
                  totals |-> MatrixShown(newspapers, years).totals]
    /\ pages_by_newspaper_year' = MatrixRows(pages_by_newspaper_year, newspapers, years)
    /\ pages_by_newspaper' = ReadKeys(pages_by_newspaper, newspapers, 0)
    /\ pages_by_year' = ReadKeys(pages_by_year, years, 0)

\* print_newspaper_year_matrix(), lines 178-209
print_newspaper_year_matrix ==
    /\ pc = "done"
    /\ MatrixPrint(sorted(DOMAIN data), AllYears(data))
    /\ UNCHANGED <<codecVars, scanVars, data, issues, issues_by_year, libraries,
                   library_issues, library_years>>

\* f"{min(years)}-{max(years)}" if len(years) > 1 else str(years[0])
YearRange(years) ==
    IF Len(years) > 1 THEN <<years[1], years[Len(years)]>> ELSE <<years[1]>>

\* lines 226-232: one line for each newspaper of the library
LibraryLines(library, nps) ==
    [i \in 1..Len(nps) |->
        [ newspaper |-> nps[i],
          issues |-> Cardinality(Get2(library_issues, library, nps[i], {})),
          pages |-> Get2(libraries, library, nps[i], 0),
          year_range |-> YearRange(sorted_ints(Get2(library_years, library, nps[i], {}))) ]]

\* lines 219-221: the totals of one library
LibraryTotals(library, held, issued) ==
    [ library |-> library,
      total_pages |-> sum([i \in 1..Len(held) |-> Get2(libraries, library, held[i], 0)]),
      total_issues |-> sum([i \in 1..Len(issued) |->
                              Cardinality(Get2(library_issues, library, issued[i], {}))]),
      newspapers_count |-> Len(held),
      lines |-> LibraryLines(library, held) ]

\* the newspapers under a library in one of the mappings
Under(d, library) == sorted(DOMAIN Get(d, library, EmptyMap))

\* lines 219-229: the reads made for one library, on the mappings ix
StatisticsReads(ix, library, held, issued) ==
    [ libraries |-> ReadEach(Touch(ix.libraries, library, EmptyMap), library, held, 0),
      library_issues |-> ReadEach(ReadEach(Touch(ix.library_issues, library, EmptyMap),
                                           library, issued, {}),
                                  library, held, {}),
      library_years |-> ReadEach(ix.library_years, library, held, {}) ]

RECURSIVE StatisticsLoop(_, _)
\* lines 218-232
StatisticsLoop(ix, libs) ==
    IF libs = <<>> THEN ix
    ELSE StatisticsLoop(StatisticsReads(ix, Head(libs), Under(ix.libraries, Head(libs)),
                                        Under(ix.library_issues, Head(libs))),
                        Tail(libs))

StatisticsPrint(libs, after) ==
    /\ report' = [op |-> "print_library_statistics", exc |-> "none",
                  rows |-> [i \in 1..Len(libs) |->
                              LibraryTotals(libs[i], Under(libraries, libs[i]),
                                            Under(library_issues, libs[i]))]]
    /\ libraries' = after.libraries
    /\ library_issues' = after.library_issues
    /\ library_years' = after.library_years

\* print_library_statistics(), lines 211-232
print_library_statistics ==
    /\ pc = "done"
    /\ StatisticsPrint(sorted(DOMAIN libraries),
                       StatisticsLoop([libraries |-> libraries,
                                       library_issues |-> library_issues,
                                       library_years |-> library_years],
                                      sorted(DOMAIN libraries)))
    /\ UNCHANGED <<codecVars, scanVars, data, issues, pages_by_newspaper,
                   pages_by_year, pages_by_newspaper_year, issues_by_year>>

\* date.startswith(prefix)
startswith(date, prefix) ==
    Len(prefix) <= Len(date) /\ SubSeq(date, 1, Len(prefix)) = prefix

\* lines 254-259: the issues and pages of one year held by the library
HoldingsYear(library, newspaper, year) ==
    [ library |-> library, newspaper |-> newspaper, year |-> year,
      issues |-> Cardinality({date \in Get2(library_issues, library, newspaper, {}) :
                                startswith(date, str(year))}),
      pages |-> Cardinality({i \in DOMAIN Get2(data, newspaper, year, <<>>) :
                               Get2(data, newspaper, year, <<>>)[i].library = library}) ]

HoldingsYears(library, newspaper, years) ==
    [j \in 1..Len(years) |-> HoldingsYear(library, newspaper, years[j])]

RECURSIVE HoldingsLines(_, _)
\* lines 245-259: the lines of one library, newspaper by newspaper
HoldingsLines(library, nps) ==
    IF nps = <<>> THEN <<>>
    ELSE HoldingsYears(library, Head(nps),
                       sorted_ints(Get2(library_years, library, Head(nps), {})))
         \o HoldingsLines(library, Tail(nps))

RECURSIVE HoldingsShown(_)
HoldingsShown(libs) ==
    IF libs = <<>> THEN <<>>
    ELSE HoldingsLines(Head(libs), Under(libraries, Head(libs))) \o HoldingsShown(Tail(libs))

\* lines 250-257: the reads made for one newspaper of a library; the two
\* inside the loop over the years are made only where there is a year
HoldingsReads(ix, library, newspaper, years) ==
    [ library_years |-> ix.library_years,
      library_issues |-> IF years = <<>> THEN ix.library_issues
                         ELSE Touch2(ix.library_issues, library, newspaper, {}),
      data |-> ReadEach(ix.data, newspaper, years, <<>>) ]

HoldingsYearsRead(ix, library, newspaper) ==
    HoldingsReads([ix EXCEPT !.library_years = Touch2(@, library, newspaper, {})],
                  library, newspaper,
                  sorted_ints(Get2(ix.library_years, library, newspaper, {})))

RECURSIVE HoldingsNewspapers(_, _, _)
HoldingsNewspapers(ix, library, nps) ==
    IF nps = <<>> THEN ix
    ELSE HoldingsNewspapers(HoldingsYearsRead(ix, library, Head(nps)), library, Tail(nps))

RECURSIVE HoldingsLoop(_, _)
\* lines 241-259
HoldingsLoop(ix, libs) ==
    IF libs = <<>> THEN ix
    ELSE HoldingsLoop(HoldingsNewspapers(ix, Head(libs), Under(libraries, Head(libs))),
                      Tail(libs))

HoldingsPrint(libs, after) ==
    /\ report' = [op |-> "print_detailed_library_holdings", exc |-> "none",
                  rows |-> HoldingsShown(libs)]
    /\ library_years' = after.library_years
    /\ library_issues' = after.library_issues
    /\ data' = after.data

\* print_detailed_library_holdings(), lines 234-261
print_detailed_library_holdings ==
    /\ pc = "done"
    /\ HoldingsPrint(sorted(DOMAIN libraries),
                     HoldingsLoop([library_years |-> library_years,
                                   library_issues |-> library_issues,
                                   data |-> data],
                                  sorted(DOMAIN libraries)))
    /\ UNCHANGED <<codecVars, scanVars, issues, pages_by_newspaper, pages_by_year,
                   pages_by_newspaper_year, issues_by_year, libraries>>

-----------------------------------------------------------------------------
(* Specifications                                                          *)

CodecIdle ==
    /\ input = Unset
    /\ validated = Unset
    /\ decoded = Unset
    /\ encoded = Unset
    /\ revalidated = Unset
    /\ redecoded = Unset
    /\ suggested = Unset

\* An analyzer is constructed on a corpus directory, scans it once and is
\* then asked for its analyses (cli.py, run_advanced_analysis)
Init ==
    /\ CodecIdle
    /\ corpus \in Corpora
    /\ cls \in Classes
    /\ AnalyzerInit

Next ==
    \/ BeginScan
    \/ \E img_file \in corpus : ScanFile(img_file)
    \/ EndScan
    \/ analyze_missing_issues
    \/ check_issue_completeness
    \/ export_issues_csv
    \/ export_missing_issues_csv

Spec == Init /\ [][Next]_vars

\* The codec functions called on their own
InitCodec ==
    /\ CodecInit
    /\ corpus = CorpusPages
    /\ cls = "AdvancedCorpusAnalyzer"
    /\ AnalyzerInit

NextCodec ==
    \/ ValidateFilename
    \/ ParseFilename
    \/ GenerateFromRecord
    \/ GenerateFromFields
    \/ ValidateGenerated
    \/ ParseGenerated
    \/ SuggestFix

SpecCodec == InitCodec /\ [][NextCodec]_vars

\* scan_corpus on its own: construction, the walk and its end
NextScan ==
    \/ BeginScan
    \/ \E img_file \in corpus : ScanFile(img_file)
    \/ EndScan

InitScan ==
    /\ CodecIdle
    /\ corpus \in ScanCorpora
    /\ cls \in Classes
    /\ AnalyzerInit

SpecScan == InitScan /\ [][NextScan]_vars

\* two pages of one issue and a name the pattern rejects
CorpusSmall ==
    { Page(TID, D("0","1"), D("0","9"), P001, SB, <<>>, Jpg),
      Page(TID, D("0","1"), D("0","9"), P("0","0","2"), SB, <<>>, Jpg),
      FileName(<<<<"A","B","C","D">>, Y1964, D("0","1"), D("0","9"), P001, SB>>, Jpg) }

\* scan_corpus called more than once on one analyzer, the files of the
\* directory free to change between the calls
InitRescan ==
    /\ CodecIdle
    /\ corpus = CorpusSmall
    /\ cls \in Classes
    /\ AnalyzerInit

NextRescan ==
    \/ BeginScan
    \/ \E img_file \in corpus : ScanFile(img_file)
    \/ EndScan
    \/ Rescan

SpecRescan == InitRescan /\ [][NextRescan]_vars

\* The cadence and gap reports of the three subclasses
InitReports ==
    /\ CodecIdle
    /\ corpus \in ReportCorpora
    /\ cls \in ReportClasses
    /\ AnalyzerInit

NextReports ==
    \/ BeginScan
    \/ \E img_file \in corpus : ScanFile(img_file)
    \/ EndScan
    \/ analyze_missing_issues
    \/ export_missing_issues_csv
    \/ generate_missing_issues_report
    \/ create_missing_issues_sheet
    \/ export_consolidated_csv
    \/ generate_library_holdings_report
    \/ generate_combined_report

SpecReports == InitReports /\ [][NextReports]_vars

\* Every place that classifies the cadence of a newspaper, run on one index
InitCadence ==
    /\ CodecIdle
    /\ corpus = CorpusCadence
    /\ cls \in AllClasses
    /\ AnalyzerInit

NextCadence ==
    \/ BeginScan
    \/ \E img_file \in corpus : ScanFile(img_file)
    \/ EndScan
    \/ analyze_missing_issues
    \/ export_missing_issues_csv
    \/ generate_missing_issues_report
    \/ create_missing_issues_sheet
    \/ \E newspaper_code \in {TID, QTN} : example_missing_issues_estimate(newspaper_code)

SpecCadence == InitCadence /\ [][NextCadence]_vars

\* The read-only operations run on a scanned index
InitFrame ==
    /\ CodecIdle
    /\ corpus = CorpusYears
    /\ cls \in Classes
    /\ AnalyzerInit

NextFrame ==
    \/ BeginScan
    \/ \E img_file \in corpus : ScanFile(img_file)
    \/ EndScan
    \/ print_newspaper_year_matrix
    \/ print_library_statistics
    \/ print_detailed_library_holdings
    \/ analyze_missing_issues
    \/ check_issue_completeness
    \/ export_issues_csv
    \/ export_missing_issues_csv

SpecFrame == InitFrame /\ [][NextFrame]_vars

\* The consolidated csv written for a directory with a page numbered 000
InitPages ==
    /\ CodecIdle
    /\ corpus = CorpusZero
    /\ cls = "ConsolidatedExporter"
    /\ AnalyzerInit

NextPages ==
    \/ BeginScan
    \/ \E img_file \in corpus : ScanFile(img_file)
    \/ EndScan
    \/ export_consolidated_csv

SpecPages == InitPages /\ [][NextPages]_vars

-----------------------------------------------------------------------------
(* Properties                                                              *)

RECURSIVE SumValues(_, _)
SumValues(f, keys) ==
    IF keys = {} THEN 0
    ELSE LET k == CHOOSE x \in keys : TRUE
         IN f[k] + SumValues(f, keys \ {k})

Total(f) == SumValues(f, DOMAIN f)

IsImage(f) == lower(suffix(f)) \in VALID_EXTENSIONS

\* the records of the image files walked whose name was accepted
AcceptedRecords ==
    LET parsed == [i \in 1..Len(walked) |->
                      IF IsImage(walked[i]) THEN parse_filename(walked[i]) ELSE None]
    IN [i \in {j \in 1..Len(walked) : parsed[j] # None} |-> parsed[i]]

\* C1: after scan_corpus, the page counts summed over newspapers and summed
\* over years both equal valid_files, the number of scanned image files whose
\* name parse_filename accepted.
C1_IndexTotals ==
    pc \in {"done", "raised"} =>
        /\ Total(pages_by_newspaper) = Total(pages_by_year)
        /\ Total(pages_by_year) = valid_files
        /\ valid_files = Cardinality(DOMAIN AcceptedRecords)

C1_Witness ==
    /\ pc = "done"
    /\ valid_files = 3
    /\ Cardinality(DOMAIN pages_by_newspaper) = 2
    /\ Cardinality(DOMAIN pages_by_year) = 2
    /\ Len(invalid_files) = 1

\* the positions of the walk that hold an image file
ImagesAt == {i \in 1..Len(walked) : IsImage(walked[i])}

\* the file the walk has just yielded
Yielded == walked'[Len(walked')]

\* the iteration on a malformed name f changes no index dimension, lists f
\* as invalid and leaves the scan running
RejectedStep(f, parsed) ==
    (IsImage(f) /\ parsed = None) =>
        /\ UNCHANGED indexVars
        /\ invalid_files' = Append(invalid_files, f)
        /\ valid_files' = valid_files
        /\ total_files' = total_files + 1
        /\ pc' = "scanning"

\* the counters of the scan against the image files walked and the records
\* accepted among them
CountersMatch(rec) ==
    /\ total_files = Cardinality(ImagesAt)
    /\ valid_files = Cardinality(DOMAIN rec)
    /\ Len(invalid_files) = Cardinality(ImagesAt \ DOMAIN rec)
    /\ \A j \in 1..Len(invalid_files) :
          invalid_files[j] \in {walked[i] : i \in ImagesAt \ DOMAIN rec}
    /\ total_files = valid_files + Len(invalid_files)

\* C2: wherever a malformed name occurs in the walk, the iteration on it
\* changes no index dimension, appends the name to invalid_files and leaves
\* the scan running, so the files after it are still processed; at every
\* point of the scan and after it total_files = valid_files +
\* len(invalid_files), every image file walked being counted in one of the
\* two. The walk of NewspaperCorpusAnalyzer.scan_corpus never raises.
C2_MalformedIsolated ==
    /\ [][walked' # walked => RejectedStep(Yielded, parse_filename(Yielded))]_vars
    /\ [](pc # "new" => CountersMatch(AcceptedRecords))
    /\ [](pc = "raised" => cls = "ConsolidatedExporter")

\* a scan that ended after a malformed name in the middle of the walk
C2_Witness ==
    /\ pc = "done"
    /\ Len(walked) = 3
    /\ parse_filename(walked[1]) # None
    /\ IsImage(walked[2]) /\ parse_filename(walked[2]) = None
    /\ IsImage(walked[3]) /\ parse_filename(walked[3]) # None
    /\ valid_files = 2
    /\ invalid_files = <<walked[2]>>

SameFields(r, f) ==
    /\ r.newspaper = f.newspaper
    /\ r.year = f.year
    /\ r.month = f.month
    /\ r.day = f.day
    /\ r.page = f.page
    /\ r.library = f.library
    /\ r.shelfmark = f.shelfmark

\* C3: for any record a successful parse_filename produced, generate_filename
\* on its fields succeeds and parsing the generated name gives the same
\* newspaper, year, month, day, page, library and shelfmark.
C3_DecodeEncodeRoundTrip ==
    (decoded # Unset /\ decoded # None /\ encoded # Unset) =>
        /\ encoded.exc = "none"
        /\ redecoded # Unset => (redecoded # None /\ SameFields(redecoded, decoded))

\* the parts of a generated name: its stem split at the underscores
NameParts(name) == split(stem(name), "_")

\* C4: for every field tuple within the declared bounds, generate_filename
\* returns a name whose numeric fields are zero-padded to 4, 2, 2 and 3
\* digits, which validate_filename reports as (True, "Valid") and which
\* parse_filename decodes to the same field values.
C4_EncodeDecodeRoundTrip ==
    (input # Unset /\ input.kind = "fields" /\ ValidFields(input.fields)) =>
        /\ encoded # Unset =>
              /\ encoded.exc = "none"
              /\ Len(NameParts(encoded.value)) >= 6
              /\ NameParts(encoded.value)[1] = input.fields.newspaper
              /\ Len(NameParts(encoded.value)[2]) = 4
              /\ Len(NameParts(encoded.value)[3]) = 2
              /\ Len(NameParts(encoded.value)[4]) = 2
              /\ Len(NameParts(encoded.value)[5]) = 3
              /\ NameParts(encoded.value)[6] = input.fields.library
              /\ suffix(encoded.value) = input.fields.extension
        /\ revalidated # Unset => (revalidated.valid /\ revalidated.text = "Valid")
        /\ redecoded # Unset => (redecoded # None /\ SameFields(redecoded, input.fields))

C4_Witness ==
    /\ input # Unset
    /\ input.kind = "fields"
    /\ ValidFields(input.fields)
    /\ input.fields.month = 1
    /\ input.fields.page = 42
    /\ input.fields.shelfmark = <<"a", "_", "b", ".", "x">>
    /\ revalidated # Unset /\ revalidated.valid
    /\ redecoded # Unset /\ redecoded # None

\* the bounds generate_filename declares for its arguments
FieldsInBounds(f) ==
    /\ Len(f.newspaper) = 3 /\ AllUpper(f.newspaper)
    /\ 1000 <= f.year /\ f.year <= 9999
    /\ 1 <= f.month /\ f.month <= 12
    /\ 1 <= f.day /\ f.day <= 31
    /\ 1 <= f.page /\ f.page <= 999
    /\ Len(f.library) = 2 /\ AllUpper(f.library)

\* C5: generate_filename raises whenever a field is out of its declared
\* bound (code not 3 uppercase letters, year not 4 digits, month, day or page
\* out of range, library not 2 uppercase letters).
C5_OutOfBoundsRaises ==
    (input # Unset /\ input.kind = "fields" /\ ~FieldsInBounds(input.fields)
     /\ encoded # Unset)
        => encoded.exc = "ValueError"

\* a two-digit field of a name lying outside lo..hi
FieldOutside(part, lo, hi) ==
    ~(Len(part) = 2 /\ AllDigit(part) /\ lo <= int(part) /\ int(part) <= hi)

MonthOrDayOutOfRange(name) ==
    /\ Len(NameParts(name)) >= 4
    /\ \/ FieldOutside(NameParts(name)[3], 1, 12)
       \/ FieldOutside(NameParts(name)[4], 1, 31)

\* C6: a name whose month field is outside 01..12 or whose day field is
\* outside 01..31 is rejected by both decoders: parse_filename returns None
\* and validate_filename returns (False, ...).
C6_MonthDayBounds ==
    (input # Unset /\ input.kind = "name" /\ MonthOrDayOutOfRange(input.name)) =>
        /\ decoded # Unset => decoded = None
        /\ validated # Unset => ~validated.valid

FieldDiagnostics ==
    {"Too few parts", "Invalid newspaper code", "Invalid year", "Invalid month",
     "Invalid day", "Invalid page number", "Invalid library code"}

\* C7: every diagnostic validate_filename returns for a rejected name names
\* the part count or one specific field; the generic message is never
\* returned.
C7_SpecificDiagnostic ==
    (validated # Unset /\ ~validated.valid) => validated.text \in FieldDiagnostics

\* detail holds, for every issue, the pages of the records rec
DetailMatches(detail, rec) ==
    /\ DOMAIN detail = {rec[i].newspaper : i \in DOMAIN rec}
    /\ \A n \in DOMAIN detail :
          /\ DOMAIN detail[n] = {rec[i].date : i \in {j \in DOMAIN rec : rec[j].newspaper = n}}
          /\ \A d \in DOMAIN detail[n] :
                /\ detail[n][d] # <<>>
                /\ \A p \in set(detail[n][d]) \cup {rec[i].page : i \in DOMAIN rec} :
                      count(detail[n][d], p)
                        = Cardinality({i \in DOMAIN rec : /\ rec[i].newspaper = n
                                                          /\ rec[i].date = d
                                                          /\ rec[i].page = p})

DetailMatchesWalk == DetailMatches(issues_detail, AcceptedRecords)

GreatestOf(pl) == CHOOSE m \in set(pl) : \A x \in set(pl) : x <= m
MissingOf(pl) == {p \in 1..GreatestOf(pl) : \A i \in 1..Len(pl) : pl[i] # p}
RepeatedOf(pl) ==
    {p \in set(pl) : \E i, j \in 1..Len(pl) : i # j /\ pl[i] = p /\ pl[j] = p}

\* the sequence l lists exactly the members of S, ascending
ListsAscending(l, S) ==
    /\ set(l) = S
    /\ \A i, j \in 1..Len(l) : i < j => l[i] < l[j]

ProblemMatches(pr, pl) ==
    /\ pr.total_pages = Len(pl)
    /\ pr.max_page = GreatestOf(pl)
    /\ ListsAscending(pr.missing, MissingOf(pl))
    /\ ListsAscending(pr.duplicates, RepeatedOf(pl))

RowMatches(row, pl) ==
    /\ row.total_pages = Len(pl)
    /\ row.max_page = GreatestOf(pl)
    /\ row.has_gaps = (MissingOf(pl) # {})
    /\ row.has_duplicates = (RepeatedOf(pl) # {})

\* C8: for the page multiset of each issue, the completeness check yields
\* max_page = the greatest page, missing = 1..max_page without the pages
\* present, duplicates = the pages occurring more than once and total_pages
\* = the multiset size; an issue is listed iff a page is missing or repeated,
\* and export_issues_csv derives its flags from the same sets.
C8_Completeness ==
    /\ pc \in {"done", "raised"} => DetailMatchesWalk
    /\ (report # Unset /\ report.op = "check_issue_completeness") =>
          /\ DOMAIN report.problems = DOMAIN issues_detail
          /\ \A n \in DOMAIN issues_detail :
                /\ \A d \in DOMAIN issues_detail[n] :
                      Cardinality({k \in 1..Len(report.problems[n]) :
                                      report.problems[n][k].date = d})
                        = IF MissingOf(issues_detail[n][d]) # {}
                             \/ RepeatedOf(issues_detail[n][d]) # {}
                          THEN 1 ELSE 0
                /\ \A k \in 1..Len(report.problems[n]) :
                      /\ report.problems[n][k].date \in DOMAIN issues_detail[n]
                      /\ ProblemMatches(report.problems[n][k],
                                        issues_detail[n][report.problems[n][k].date])
    /\ (report # Unset /\ report.op = "export_issues_csv") =>
          /\ \A n \in DOMAIN issues_detail : \A d \in DOMAIN issues_detail[n] :
                Cardinality({k \in 1..Len(report.rows) :
                                report.rows[k].newspaper = n /\ report.rows[k].date = d}) = 1
          /\ \A k \in 1..Len(report.rows) :
                /\ report.rows[k].newspaper \in DOMAIN issues_detail
                /\ report.rows[k].date \in DOMAIN issues_detail[report.rows[k].newspaper]
                /\ RowMatches(report.rows[k],
                              issues_detail[report.rows[k].newspaper][report.rows[k].date])

\* pages {1,2,2,4}: missing {3}, duplicates {2}, max_page 4
C8_Witness ==
    /\ report # Unset
    /\ report.op = "check_issue_completeness"
    /\ \E n \in DOMAIN report.problems : \E k \in 1..Len(report.problems[n]) :
          /\ report.problems[n][k].total_pages = 4
          /\ report.problems[n][k].max_page = 4
          /\ report.problems[n][k].missing = <<3>>
          /\ report.problems[n][k].duplicates = <<2>>

\* the day numbers of a newspaper's issue dates
OrdinalsOf(n) == {strptime(d).ordinal : d \in issues[n]}
LeastOf(S) == CHOOSE x \in S : \A z \in S : x <= z
MostOf(S) == CHOOSE x \in S : \A z \in S : z <= x
SpanOf(n) == MostOf(OrdinalsOf(n)) - LeastOf(OrdinalsOf(n))
StepsOf(n) == Cardinality(issues[n]) - 1

\* the bucket of the mean gap span / steps, by the thresholds 1.5, 4, 8, 16
BucketOf(span, steps) ==
    IF 2 * span <= 3 * steps THEN 1
    ELSE IF span <= 4 * steps THEN 2
    ELSE IF span <= 8 * steps THEN 3
    ELSE IF span <= 16 * steps THEN 4
    ELSE 5

BucketGap == <<1, 3, 7, 14, 30>>

\* the labels the three classifiers print for each bucket
BucketLabels ==
    << {"Daily"},
       {"2-3 times per week", "2-3x per week"},
       {"Weekly"},
       {"Bi-weekly"},
       {"Monthly or irregular", "Monthly/Irregular"} >>

Classified(n, label, gap) ==
    /\ label \in BucketLabels[BucketOf(SpanOf(n), StepsOf(n))]
    /\ gap = BucketGap[BucketOf(SpanOf(n), StepsOf(n))]

IsAnalysis == report # Unset /\ report.op \in {"analyze_missing_issues", "export_missing_issues_csv"}

\* C9: for a newspaper with at least two issue dates the classifier maps the
\* mean of the consecutive day gaps to (Daily, 1) if it is <= 1.5, else
\* (2-3 per week, 3) if <= 4, else (Weekly, 7) if <= 8, else (Bi-weekly, 14)
\* if <= 16, else (Monthly or irregular, 30); a mean on a threshold falls in
\* the lower bucket. This holds of analyze_missing_issues,
\* export_missing_issues_csv and _calculate_frequency.
C9_CadenceBuckets ==
    /\ IsAnalysis =>
          /\ \A k \in 1..Len(report.rows) :
                /\ report.rows[k].newspaper \in DOMAIN issues
                /\ report.rows[k].total_issues = Cardinality(issues[report.rows[k].newspaper])
                /\ report.rows[k].total_issues >= 2
                /\ report.rows[k].avg_gap.num * StepsOf(report.rows[k].newspaper)
                      = SpanOf(report.rows[k].newspaper) * report.rows[k].avg_gap.den
                /\ Classified(report.rows[k].newspaper, report.rows[k].freq,
                              report.rows[k].expected_gap)
          /\ report.exc = "none" =>
                \A n \in DOMAIN issues :
                    Cardinality(issues[n]) >= 2 =>
                        \E k \in 1..Len(report.rows) : report.rows[k].newspaper = n
    /\ \A n \in DOMAIN frequency_cache :
          Cardinality(issues[n]) >= 2 =>
              Classified(n, frequency_cache[n].frequency, frequency_cache[n].expected_gap)

\* three dates whose mean gap is exactly 1.5 days, classified Daily by the
\* analysis and by the exporter's cache
C9_Witness ==
    /\ IsAnalysis
    /\ report.op = "analyze_missing_issues"
    /\ cls = "ConsolidatedExporter"
    /\ \E k \in 1..Len(report.rows) :
          /\ report.rows[k].gaps = <<1, 2>>
          /\ report.rows[k].freq = "Daily"
          /\ report.rows[k].expected_gap = 1
          /\ frequency_cache[report.rows[k].newspaper].frequency = "Daily"

\* floor(gap_days / expected_gap)
FloorQuotient(gap_days, expected_gap) ==
    CHOOSE q \in 0..gap_days :
        q * expected_gap <= gap_days /\ gap_days < (q + 1) * expected_gap

EstimateOf(gap_days, expected_gap) ==
    IF FloorQuotient(gap_days, expected_gap) - 1 > 0
    THEN FloorQuotient(gap_days, expected_gap) - 1
    ELSE 0

\* the consecutive pairs of a row whose gap exceeds twice the expected gap
SignificantAt(row) ==
    {i \in 1..Len(row.gaps) : row.gaps[i] > 2 * row.expected_gap}

EstimateSum(row) ==
    SumValues([i \in SignificantAt(row) |-> EstimateOf(row.gaps[i], row.expected_gap)],
              SignificantAt(row))

\* the gaps of a row are the day differences of its consecutive dates
GapsOfDates(row) ==
    /\ Len(row.gaps) = Len(row.dates) - 1
    /\ \A i \in 1..Len(row.gaps) :
          row.gaps[i] = strptime(row.dates[i + 1]).ordinal - strptime(row.dates[i]).ordinal

\* the significant gaps listed are those of SignificantAt, in order
ListedGaps(row) ==
    /\ Len(row.significant_gaps) = Cardinality(SignificantAt(row))
    /\ \A i \in SignificantAt(row) :
          \E j \in 1..Len(row.significant_gaps) :
              /\ j = Cardinality({x \in SignificantAt(row) : x <= i})
              /\ row.significant_gaps[j].from = row.dates[i]
              /\ row.significant_gaps[j].to = row.dates[i + 1]
              /\ row.significant_gaps[j].days = row.gaps[i]
              /\ row.significant_gaps[j].estimated_missing
                    = EstimateOf(row.gaps[i], row.expected_gap)

\* C10: a gap between consecutive issue dates is reported as significant iff
\* gap_days > 2 * expected_gap; each significant gap has estimated_missing =
\* max(0, floor(gap_days / expected_gap) - 1); the newspaper's total is the
\* sum over its significant gaps only.
C10_GapEstimates ==
    IsAnalysis =>
        \A k \in 1..Len(report.rows) :
            /\ GapsOfDates(report.rows[k])
            /\ report.rows[k].total_estimated_missing = EstimateSum(report.rows[k])
            /\ report.op = "analyze_missing_issues" => ListedGaps(report.rows[k])
            /\ report.op = "export_missing_issues_csv" =>
                  report.rows[k].significant_gaps_count
                      = Cardinality(SignificantAt(report.rows[k]))

\* expected gap 7, gaps of 1, 1 and 22 days: only the 22-day gap is listed,
\* with an estimate of 2
C10_Witness ==
    /\ IsAnalysis
    /\ report.op = "analyze_missing_issues"
    /\ \E k \in 1..Len(report.rows) :
          /\ report.rows[k].expected_gap = 7
          /\ report.rows[k].gaps = <<1, 1, 22>>
          /\ Len(report.rows[k].significant_gaps) = 1
          /\ report.rows[k].significant_gaps[1].days = 22
          /\ report.rows[k].significant_gaps[1].estimated_missing = 2
          /\ report.rows[k].total_estimated_missing = 2

\* an entry of the invalid-file list that holds a name with its diagnostic
EntryWithDiagnostic(entry, names) ==
    /\ Len(entry) = 2
    /\ \E name \in names :
          /\ entry[1] = name
          /\ entry[2] = validate_filename(name).text

\* C11: for each file name that fails decoding during a scan, the entry of
\* the invalid-file list holds the name together with its field-level
\* diagnostic (for ABCD_1964_01_09_001_SB.jpg beside two valid files: 2
\* valid pages and one entry whose diagnostic names the newspaper code).
C11_InvalidWithDiagnostic ==
    pc # "new" =>
        \A j \in 1..Len(invalid_files) :
            EntryWithDiagnostic(invalid_files[j], {walked[i] : i \in ImagesAt})

\* the newspapers of the index with fewer than two distinct issue dates
FewDates == {n \in DOMAIN issues : Cardinality(issues[n]) < 2}

CadenceReports ==
    {"analyze_missing_issues", "export_missing_issues_csv",
     "generate_missing_issues_report", "create_missing_issues_sheet"}

IsCadenceReport == report # Unset /\ report.op \in CadenceReports

\* some newspaper with two dates or more has a date that is no calendar date
UnparsableSeries ==
    \E n \in DOMAIN issues \ FewDates : AnyInvalid(DateObjects(sorted(issues[n])))

\* C12: a newspaper with fewer than two distinct issue dates is left out of
\* every cadence and gap analysis: no row of analyze_missing_issues,
\* export_missing_issues_csv, generate_missing_issues_report or the
\* Missing_Issues sheet is about it, the frequency calculation gives it the
\* "Unknown" placeholder and none of the cadence labels, and when one of
\* these operations raises, a newspaper with two dates or more is the cause.
C12_EmptySeriesExcluded ==
    /\ IsCadenceReport =>
          /\ \A i \in 1..Len(report.rows) :
                /\ report.rows[i].newspaper \in DOMAIN issues \ FewDates
                /\ report.rows[i].total_issues >= 2
          /\ report.exc # "none" => UnparsableSeries
    /\ pc = "raised" => UnparsableSeries
    /\ (pc = "done" /\ cls = "ConsolidatedExporter") =>
          \A n \in FewDates :
              /\ n \in DOMAIN frequency_cache
              /\ frequency_cache[n] = [frequency |-> "Unknown", avg_gap |-> Avg(0, 1), expected_gap |-> 30]

\* the Missing_Issues sheet was written without an exception, with a row,
\* for an index that holds a newspaper whose single date is no calendar date
C12_Witness ==
    /\ IsCadenceReport
    /\ report.op = "create_missing_issues_sheet"
    /\ report.exc = "none"
    /\ report.rows # <<>>
    /\ \E n \in FewDates : AnyInvalid(DateObjects(sorted(issues[n])))

\* issues holds, for every newspaper of the records rec, their dates
IssuesMatch(rec) ==
    /\ DOMAIN issues = {rec[i].newspaper : i \in DOMAIN rec}
    /\ \A n \in DOMAIN issues :
          issues[n] = {rec[i].date : i \in {j \in DOMAIN rec : rec[j].newspaper = n}}

\* the page counters and the record lists hold the records rec once each
PagesMatch(rec) ==
    /\ Total(pages_by_newspaper) = Cardinality(DOMAIN rec)
    /\ Total(pages_by_year) = Cardinality(DOMAIN rec)
    /\ \A n \in DOMAIN data : \A y \in DOMAIN data[n] :
          Len(data[n][y]) = Cardinality({i \in DOMAIN rec : rec[i].newspaper = n /\ rec[i].year = y})

\* C13: when a call of scan_corpus has ended, the index is what a new
\* analyzer computes for the files of that call's walk, whether it is the
\* first call on the object or a later one: the page counters, the record
\* lists, the issue dates and the per-issue page lists hold the accepted
\* files of that walk once each.
C13_FreshIndexPerScan ==
    pc = "done" =>
        /\ PagesMatch(AcceptedRecords)
        /\ IssuesMatch(AcceptedRecords)
        /\ DetailMatchesWalk

\* the positions of the records rec that are of newspaper n
RecordsOf(rec, n) == {i \in DOMAIN rec : rec[i].newspaper = n}

\* every date of issues[n] is listed once by sorted(issues[n])
ListedOnce(dates) ==
    /\ Len(dates) = Cardinality(set(dates))
    /\ \A i, j \in 1..Len(dates) : i < j => dates[i] # dates[j]

\* C14: at every point of a scan, issues[n] is the set of the dates of the
\* valid files of newspaper n walked so far: each such date is in it once
\* (sorted(issues[n]) lists it once), and its size is the number of distinct
\* dates among those files, however many pages and libraries a date has.
C14_IssueDatesOnce ==
    pc # "new" =>
        /\ IssuesMatch(AcceptedRecords)
        /\ \A n \in DOMAIN issues :
              /\ set(sorted(issues[n])) = issues[n]
              /\ ListedOnce(sorted(issues[n]))

\* four files of one newspaper were stored, three of them of one date, the
\* same page among them twice from two libraries, and the set has two dates
C14_Witness ==
    /\ pc = "done"
    /\ valid_files = 4
    /\ \E n \in DOMAIN issues :
          /\ Cardinality(RecordsOf(AcceptedRecords, n)) = 4
          /\ Cardinality(issues[n]) = 2
          /\ \E i, j, k \in RecordsOf(AcceptedRecords, n) :
                /\ i < j /\ j < k
                /\ AcceptedRecords[i].date = AcceptedRecords[j].date
                /\ AcceptedRecords[j].date = AcceptedRecords[k].date
                /\ AcceptedRecords[i].page = AcceptedRecords[j].page
                /\ AcceptedRecords[i].library # AcceptedRecords[j].library

\* the years of the records rec that are of newspaper n
YearsOf(rec, n) == {rec[i].year : i \in RecordsOf(rec, n)}

\* the number of the records rec of newspaper n and year y
PagesOf(rec, n, y) == Cardinality({i \in RecordsOf(rec, n) : rec[i].year = y})

\* d is keyed by the newspapers of rec and, below each, by its years
YearKeys(d, rec) ==
    /\ DOMAIN d = {rec[i].newspaper : i \in DOMAIN rec}
    /\ \A n \in DOMAIN d : DOMAIN d[n] = YearsOf(rec, n)

YearKeysMatch(rec) ==
    /\ YearKeys(data, rec)
    /\ YearKeys(pages_by_newspaper_year, rec)
    /\ YearKeys(issues_by_year, rec)
    /\ \A n \in DOMAIN data : \A y \in DOMAIN data[n] :
          /\ Len(data[n][y]) = PagesOf(rec, n, y)
          /\ Len(data[n][y]) >= 1
    /\ \A n \in DOMAIN pages_by_newspaper_year :
          \A y \in DOMAIN pages_by_newspaper_year[n] :
              /\ pages_by_newspaper_year[n][y] = PagesOf(rec, n, y)
              /\ pages_by_newspaper_year[n][y] >= 1
    /\ \A n \in DOMAIN issues_by_year : \A y \in DOMAIN issues_by_year[n] :
          issues_by_year[n][y] # {}

\* C15: at every point of a scan and after it, a (newspaper, year) pair is
\* a key of data, of pages_by_newspaper_year and of issues_by_year exactly
\* when a valid file walked has that newspaper and year; no pair is a key
\* with zero records, zero pages or no date.
C15_YearKeys == pc # "new" => YearKeysMatch(AcceptedRecords)

\* a newspaper is indexed under two years and another under one
C15_Witness ==
    /\ pc = "done"
    /\ \E n, o \in DOMAIN data :
          /\ Cardinality(DOMAIN data[n]) = 2
          /\ Cardinality(DOMAIN data[o]) = 1
          /\ DOMAIN pages_by_newspaper_year[n] = DOMAIN data[n]
          /\ DOMAIN issues_by_year[n] = DOMAIN data[n]

\* the bounds of the fields of a stored record: page 1..999, a year of four
\* digits, a newspaper code of three capitals, a library code of two
RecordInBounds(r) ==
    /\ r.page \in 1..999
    /\ r.year \in 1000..9999
    /\ Len(r.newspaper) = 3 /\ AllUpper(r.newspaper)
    /\ Len(r.library) = 2 /\ AllUpper(r.library)

\* C16: every record the scan stores has its page in 1..999 (so that the
\* greatest page of an issue is never 0), a four-digit year, a newspaper
\* code of three capitals and a library code of two capitals.
C16_StoredInBounds ==
    \A n \in DOMAIN data : \A y \in DOMAIN data[n] :
        \A i \in 1..Len(data[n][y]) : RecordInBounds(data[n][y][i])

\* the row r of the consolidated csv against pl, the pages held of its issue
ConsolidatedMatches(r, pl) ==
    /\ IF GreatestOf(pl) = 0
       THEN r.completeness_pct.num = 100 * r.completeness_pct.den
       ELSE r.completeness_pct.num * GreatestOf(pl)
              = Cardinality(set(pl)) * 100 * r.completeness_pct.den
    /\ r.completeness_pct.den # 0
    /\ (\E n \in 1..999 : set(pl) = 1..n /\ Len(pl) = n) =>
          /\ r.missing_pages = {}
          /\ ~r.has_missing
          /\ ~r.has_duplicates
          /\ r.total_pages = Cardinality(set(pl))
          /\ r.is_complete
          /\ r.completeness_pct.num = 100 * r.completeness_pct.den

\* C17: in every row of the consolidated csv the completeness percentage is
\* the number of distinct pages held over the greatest page number, times
\* 100, and is 100 when the greatest page number is 0, where no division
\* takes place; an issue whose pages are exactly 1..n, none repeated, has no
\* missing page, no duplicate, Is_Complete_Issue Yes and 100 percent.
C17_CompletenessPct ==
    (report # Unset /\ report.op = "export_consolidated_csv") =>
        /\ Len(report.rows) = Total([n \in DOMAIN issues_detail |-> Cardinality(DOMAIN issues_detail[n])])
        /\ \A k \in 1..Len(report.rows) :
              /\ report.rows[k].newspaper \in DOMAIN issues_detail
              /\ report.rows[k].date \in DOMAIN issues_detail[report.rows[k].newspaper]
              /\ ConsolidatedMatches(report.rows[k],
                     issues_detail[report.rows[k].newspaper][report.rows[k].date])

\* the csv has a row for an issue held with pages 1, 2, 3 and a row for an
\* issue whose only page is numbered 0
C17_Witness ==
    /\ report # Unset
    /\ report.op = "export_consolidated_csv"
    /\ \E j, k \in 1..Len(report.rows) :
          /\ report.rows[j].pages = <<1, 2, 3>>
          /\ report.rows[j].is_complete
          /\ Len(report.rows[j].all_libraries) = 2
          /\ report.rows[k].pages = <<0>>
          /\ report.rows[k].completeness_pct = Avg(100, 1)

\* the fraction c is observed / (observed + missing) * 100
IsCompleteness(c, observed, missing) ==
    /\ c # None
    /\ c.den # 0
    /\ observed + missing # 0
    /\ c.num * (observed + missing) = observed * 100 * c.den

\* C18: for a newspaper with at least two issue dates, the estimated
\* collection completeness of the Missing_Issues sheet and of the missing
\* issues report is observed / (observed + total_estimated_missing) * 100,
\* observed being the number of distinct issue dates; the sheet holds
\* exactly 100 for a newspaper without a significant gap, for which the
\* report writes no figure but "No significant gaps detected"; no division
\* is by zero.
C18_EstimatedCompleteness ==
    (report # Unset /\ report.op \in {"create_missing_issues_sheet", "generate_missing_issues_report"}) =>
        \A k \in 1..Len(report.rows) :
            /\ GapsOfDates(report.rows[k])
            /\ report.rows[k].newspaper \in DOMAIN issues
            /\ Cardinality(issues[report.rows[k].newspaper]) >= 2
            /\ IF SignificantAt(report.rows[k]) # {}
               THEN IsCompleteness(report.rows[k].completeness,
                                   Cardinality(issues[report.rows[k].newspaper]),
                                   EstimateSum(report.rows[k]))
               ELSE IF report.op = "create_missing_issues_sheet"
               THEN /\ IsCompleteness(report.rows[k].completeness,
                                      Cardinality(issues[report.rows[k].newspaper]), 0)
                    /\ report.rows[k].completeness.num = 100 * report.rows[k].completeness.den
               ELSE report.rows[k].completeness = None

\* four issue dates with gaps of 1, 1 and 22 days at an expected gap of 7:
\* two issues are estimated missing and the sheet holds 4 / 6 * 100
C18_Witness ==
    /\ report # Unset
    /\ report.op = "create_missing_issues_sheet"
    /\ \E k \in 1..Len(report.rows) :
          /\ report.rows[k].gaps = <<1, 1, 22>>
          /\ report.rows[k].expected_gap = 7
          /\ report.rows[k].total_estimated_missing = 2
          /\ report.rows[k].completeness = Avg(400, 6)

\* C20: after a scan of a corpus with at least one valid file,
\* generate_combined_report of LibraryHoldingsReporter runs the holdings
\* report and the missing issues report to their end, no exception raised.
C20_CombinedReportCompletes ==
    (/\ report # Unset
     /\ report.op = "generate_combined_report"
     /\ valid_files >= 1) => report.exc = "none"

\* a field that capitals make a code of n capital letters
RecoverableCode(field, n) == Len(field) = n /\ AllUpper(upper(field))

\* a field of digits whose number, in lo..hi, zero-padding writes in the
\* digits the pattern asks for
RecoverableNumber(field, lo, hi) ==
    /\ isdigit(field)
    /\ lo <= int(field) /\ int(field) <= hi

\* every field of the name can be recovered on its own
Recoverable(parts) ==
    /\ Len(parts) >= 6
    /\ RecoverableCode(parts[1], 3)
    /\ RecoverableNumber(parts[2], 0, 9999)
    /\ RecoverableNumber(parts[3], 1, 12)
    /\ RecoverableNumber(parts[4], 1, 31)
    /\ RecoverableNumber(parts[5], 1, 999)
    /\ RecoverableCode(parts[6], 2)

\* C19: suggest_filename_fix proposes a correction only for a name whose
\* every field can be recovered on its own, the codes by upper-casing and
\* the numbers by zero-padding; it returns None when some field cannot.
C19_SuggestOnlyRecoverable ==
    (suggested # Unset /\ suggested # None) =>
        Recoverable(split(stem(input.name), "_"))

\* a code field of n capital letters; a number field of w digits in lo..hi
CodeField(f, n) == Len(f) = n /\ AllUpper(f)
NumberField(f, w, lo, hi) ==
    Len(f) = w /\ AllDigit(f) /\ lo <= int(f) /\ int(f) <= hi

\* the diagnostic of the first field of parts, in the order newspaper code,
\* year, month, day, page, library, that is not as the messages require
FirstViolation(parts) ==
    IF ~CodeField(parts[1], 3) THEN "Invalid newspaper code"
    ELSE IF ~NumberField(parts[2], 4, 0, 9999) THEN "Invalid year"
    ELSE IF ~NumberField(parts[3], 2, 1, 12) THEN "Invalid month"
    ELSE IF ~NumberField(parts[4], 2, 1, 31) THEN "Invalid day"
    ELSE IF ~NumberField(parts[5], 3, 0, 999) THEN "Invalid page number"
    ELSE IF ~CodeField(parts[6], 2) THEN "Invalid library code"
    ELSE "none"

\* C21: when validate_filename rejects a name of six parts or more, one of
\* whose fields is not as required, it reports the first such field in the
\* order newspaper code, year, month, day, page, library: a newspaper code
\* that is not three capital letters whatever the later fields hold, the
\* year whenever the code is well-formed.
C21_FirstViolatingField ==
    (/\ validated # Unset
     /\ ~validated.valid
     /\ Len(split(stem(input.name), "_")) >= 6
     /\ FirstViolation(split(stem(input.name), "_")) # "none")
        => validated.text = FirstViolation(split(stem(input.name), "_"))

\* the number of significant gaps a row of a cadence report holds
GapCountOf(r) ==
    IF "significant_gaps_count" \in DOMAIN r THEN r.significant_gaps_count
    ELSE Len(r.significant_gaps)

\* the row r holds what the row a of analyze_missing_issues holds
SameCadence(r, a) ==
    /\ r.expected_gap = a.expected_gap
    /\ GapCountOf(r) = Len(a.significant_gaps)
    /\ r.total_estimated_missing = a.total_estimated_missing

\* C22: every place that classifies cadence gives a sorted date sequence
\* the same expected gap, and so the same number of significant gaps and
\* the same total of issues estimated missing: what export_missing_issues_csv,
\* generate_missing_issues_report, the Missing_Issues sheet and
\* example_missing_issues_estimate report of a newspaper, and what
\* _calculate_frequency holds of it, is what analyze_missing_issues reports
\* of it on the same index.
C22_SameCadenceEverywhere ==
    /\ (report # Unset /\ report.op \in CadenceReports \cup {"example_missing_issues_estimate"}) =>
          \A k \in 1..Len(report.rows) :
              LET a == AnalyzeNewspaper(report.rows[k].newspaper,
                                        issues[report.rows[k].newspaper])
              IN (a.exc = "none" /\ a.row # None) => SameCadence(report.rows[k], a.row)
    /\ (pc = "done" /\ cls = "ConsolidatedExporter") =>
          \A n \in DOMAIN frequency_cache :
              LET a == AnalyzeNewspaper(n, issues[n])
              IN (a.exc = "none" /\ a.row # None) =>
                    frequency_cache[n].expected_gap = a.row.expected_gap

Yields == [f \in set(walked) |-> count(walked, f)]

\* what each name of the multiset parses to, None for a name that is no
\* image file
RECURSIVE ParsedOf(_)
ParsedOf(names) ==
    IF names = {} THEN EmptyMap
    ELSE (AnyOf(names) :> (IF IsImage(AnyOf(names)) THEN parse_filename(AnyOf(names))
                           ELSE None))
         @@ ParsedOf(names \ {AnyOf(names)})

ParsedNames(b) == ParsedOf(DOMAIN b)

\* the copies the multiset b holds of the names S
Copies(b, S) == SumValues(b, S)

\* the counter d, keyed by Key(record), counts the accepted names acc of
\* the multiset b, every copy once
CounterOfBag(d, b, rec, acc, Key(_)) ==
    /\ DOMAIN d = {Key(rec[f]) : f \in acc}
    /\ \A k \in DOMAIN d : d[k] = Copies(b, {f \in acc : Key(rec[f]) = k})

\* the mapping d, keyed by Key(record), collects Val(record) of the accepted
\* names acc
SetsOfBag(d, rec, acc, Key(_), Val(_)) ==
    /\ DOMAIN d = {Key(rec[f]) : f \in acc}
    /\ \A k \in DOMAIN d : d[k] = {Val(rec[f]) : f \in {g \in acc : Key(rec[g]) = k}}

\* the list l holds every name of S once for each of its copies, and no other
ListOfBag(l, b, S) ==
    /\ Len(l) = Copies(b, S)
    /\ \A x \in set(l) : x \in S /\ count(l, x) = b[x]

\* the lists of d, keyed by Key(record), hold Val(record) once for every
\* copy of an accepted name
ListsOfBag(d, b, rec, acc, Key(_), Val(_)) ==
    /\ DOMAIN d = {Key(rec[f]) : f \in acc}
    /\ \A k \in DOMAIN d :
          /\ Len(d[k]) = Copies(b, {f \in acc : Key(rec[f]) = k})
          /\ \A x \in set(d[k]) :
                count(d[k], x) = Copies(b, {f \in acc : Key(rec[f]) = k /\ Val(rec[f]) = x})

\* flat view of a two-level mapping: <<k1, k2>> -> value
Flat(d) ==
    [k \in UNION {{<<k1, k2>> : k2 \in DOMAIN d[k1]} : k1 \in DOMAIN d} |-> d[k[1]][k[2]]]

\* every dimension of the index, the invalid files and the per-issue page
\* lists are what the multiset b of walked names determines; acc are its
\* accepted names and rej the image files among it that were rejected
IndexOfBag(b, rec, acc, rej) ==
    /\ CounterOfBag(pages_by_newspaper, b, rec, acc, LAMBDA r : r.newspaper)
    /\ CounterOfBag(pages_by_year, b, rec, acc, LAMBDA r : r.year)
    /\ CounterOfBag(Flat(pages_by_newspaper_year), b, rec, acc,
                    LAMBDA r : <<r.newspaper, r.year>>)
    /\ CounterOfBag(Flat(libraries), b, rec, acc, LAMBDA r : <<r.library, r.newspaper>>)
    /\ SetsOfBag(issues, rec, acc, LAMBDA r : r.newspaper, LAMBDA r : r.date)
    /\ SetsOfBag(Flat(issues_by_year), rec, acc, LAMBDA r : <<r.newspaper, r.year>>,
                 LAMBDA r : r.date)
    /\ SetsOfBag(Flat(library_issues), rec, acc, LAMBDA r : <<r.library, r.newspaper>>,
                 LAMBDA r : r.date)
    /\ SetsOfBag(Flat(library_years), rec, acc, LAMBDA r : <<r.library, r.newspaper>>,
                 LAMBDA r : r.year)
    /\ ListOfBag(invalid_files, b, rej)
    /\ ListsOfBag(Flat(data), b, rec, acc, LAMBDA r : <<r.newspaper, r.year>>, LAMBDA r : r)
    /\ ListsOfBag(Flat(issues_detail), b, rec, acc, LAMBDA r : <<r.newspaper, r.date>>,
                  LAMBDA r : r.page)

\* IndexOfBag for the multiset b and what its names parse to
IndexOfParsed(b, rec) ==
    IndexOfBag(b, rec, {f \in DOMAIN b : rec[f] # None},
               {f \in DOMAIN b : IsImage(f) /\ rec[f] = None})

\* C24: the index is independent of the order of the walk: when scan_corpus
\* has ended, the page counters, the issue-date sets, the year sets, the
\* invalid-file count, the multiset of records of each (newspaper, year)
\* and the multiset of page numbers of each issue are determined by the
\* multiset of the files walked, so every permutation of a file list ends
\* with the same ones.
C24_OrderIndependent == pc = "done" => IndexOfParsed(Yields, ParsedNames(Yields))

\* a scan ended on a walk that yielded a later page of an issue before an
\* earlier one, a name twice and a rejected name before an accepted one
C24_Witness ==
    /\ pc = "done"
    /\ \E i, j \in DOMAIN AcceptedRecords :
          /\ i < j
          /\ AcceptedRecords[i].newspaper = AcceptedRecords[j].newspaper
          /\ AcceptedRecords[i].date = AcceptedRecords[j].date
          /\ AcceptedRecords[i].page > AcceptedRecords[j].page
    /\ \E i, j \in 1..Len(walked) : i < j /\ walked[i] = walked[j]
    /\ \E i, j \in 1..Len(walked) :
          /\ i < j
          /\ walked[i] \in set(invalid_files)
          /\ j \in DOMAIN AcceptedRecords

\* C25: on every index built from accepted file names the gap analyses run
\* to their end: analyze_missing_issues, export_missing_issues_csv,
\* generate_missing_issues_report, the Missing_Issues sheet and the
\* frequency calculation of ConsolidatedExporter.scan_corpus raise no
\* exception.
C25_GapAnalysesComplete ==
    /\ pc # "raised"
    /\ IsCadenceReport => report.exc = "none"

\* suggest_filename_fix returned a name
IsSuggestion(v) == v # Unset /\ v # None

\* C26: every name suggest_filename_fix returns is one validate_filename
\* accepts as (True, "Valid"), and for a name validate_filename accepts
\* already suggest_filename_fix returns None.
C26_SuggestionsValid ==
    /\ IsSuggestion(suggested) =>
          /\ validate_filename(suggested).valid
          /\ validate_filename(suggested).text = "Valid"
    /\ (suggested # Unset /\ validate_filename(input.name).valid) => suggested = None

\* the percentage c, a fraction, is 100
IsHundred(c) == c.num = 100 * c.den

\* C27: for every issue of issues_detail the Completeness_Pct of its row in
\* the consolidated export lies in 0..100, and it is 100 exactly when the
\* row's Has_Missing_Pages is 'No'.
C27_CompletenessRange ==
    (report # Unset /\ report.op = "export_consolidated_csv") =>
        \A k \in 1..Len(report.rows) :
            /\ 0 <= report.rows[k].completeness_pct.num
            /\ report.rows[k].completeness_pct.num <= 100 * report.rows[k].completeness_pct.den
            /\ IsHundred(report.rows[k].completeness_pct) <=> ~report.rows[k].has_missing

\* the expected gaps the cadence buckets assign
ExpectedGaps == {1, 3, 7, 14, 30}

\* the gaps in days for which the estimate is computed outright
GapDays == 1..(12 * 31)

\* the row lists a significant gap exactly where its total is positive
GuardsAgree(row) ==
    /\ row.expected_gap \in ExpectedGaps
    /\ row.total_estimated_missing > 0 <=> SignificantAt(row) # {}
    /\ \A i \in SignificantAt(row) :
          /\ (row.gaps[i] \div row.expected_gap) - 1 >= 1
          /\ EstimateOf(row.gaps[i], row.expected_gap)
                = (row.gaps[i] \div row.expected_gap) - 1

\* C28: for every gap of more than twice the expected gap, the expected gap
\* being 1, 3, 7, 14 or 30, int(gap_days / expected_gap) - 1 is at least 1,
\* so that max(0, ...) leaves the estimate as it is and the total of a
\* newspaper is positive exactly when it has a significant gap: the guard
\* 'if significant_gaps' of generate_missing_issues_report and the guard
\* 'total_estimated_missing > 0' of the Missing_Issues sheet choose the same
\* newspapers.
C28_EstimateNeverClamped ==
    /\ pc = "new" =>
          \A e \in ExpectedGaps : \A g \in GapDays :
              IsSignificant(g, e) =>
                  /\ (g \div e) - 1 >= 1
                  /\ MissingEstimate(g, e) = (g \div e) - 1
    /\ IsCadenceReport =>
          \A k \in 1..Len(report.rows) : GuardsAgree(report.rows[k])
    /\ (report # Unset /\ report.op = "generate_missing_issues_report") =>
          \A k \in 1..Len(report.rows) :
              /\ report.rows[k].significant_gaps # <<>> <=> SignificantAt(report.rows[k]) # {}
              /\ report.rows[k].completeness # None <=> report.rows[k].total_estimated_missing > 0
              /\ \A j \in 1..Len(report.rows[k].significant_gaps) :
                    report.rows[k].significant_gaps[j].estimated_missing >= 1
    /\ (report # Unset /\ report.op = "create_missing_issues_sheet") =>
          \A k \in 1..Len(report.rows) :
              /\ report.rows[k].significant_gaps_count > 0 <=> SignificantAt(report.rows[k]) # {}
              /\ report.rows[k].completeness # Avg(100, 1) =>
                    report.rows[k].total_estimated_missing > 0

\* the report of a newspaper with a gap of 22 days against an expected gap
\* of 7, listed with an estimate of 2, its other gaps not being significant
C28_Witness ==
    /\ report # Unset
    /\ report.op = "generate_missing_issues_report"
    /\ \E k \in 1..Len(report.rows) :
          /\ report.rows[k].expected_gap = 7
          /\ Len(report.rows[k].gaps) = 3
          /\ Len(report.rows[k].significant_gaps) = 1
          /\ report.rows[k].significant_gaps[1].days = 22
          /\ report.rows[k].significant_gaps[1].estimated_missing = 2
          /\ report.rows[k].total_estimated_missing = 2

\* the records the index holds of newspaper n, whatever their year
HeldOf(n) == {<<y, i>> \in UNION {{<<y, i>> : i \in DOMAIN data[n][y]} : y \in DOMAIN data[n]} : TRUE}

\* issues_detail[n] against the index: its keys are the dates of issues[n],
\* its lists together are as long as pages_by_newspaper[n], and the list of
\* a date holds each page number as often as data holds a record of that
\* date and page
DetailOfIndex(n, held) ==
    /\ n \in DOMAIN issues_detail
    /\ DOMAIN issues_detail[n] = issues[n]
    /\ Total([d \in DOMAIN issues_detail[n] |-> Len(issues_detail[n][d])])
          = pages_by_newspaper[n]
    /\ \A d \in DOMAIN issues_detail[n] :
          \A p \in set(issues_detail[n][d]) \cup {data[n][h[1]][h[2]].page : h \in held} :
              count(issues_detail[n][d], p)
                = Cardinality({h \in held : /\ data[n][h[1]][h[2]].date = d
                                            /\ data[n][h[1]][h[2]].page = p})

\* C29: whenever a call of AdvancedCorpusAnalyzer.scan_corpus or
\* ConsolidatedExporter.scan_corpus has ended, for every newspaper n the
\* keys of issues_detail[n] are the dates of issues[n], the lengths of its
\* page lists sum to pages_by_newspaper[n], and the page list of an issue
\* is the multiset of the page numbers of the files scanned of that
\* newspaper and date.
C29_DetailMatchesIndex ==
    (pc = "done" /\ cls \in Classes) =>
        /\ DOMAIN issues_detail = DOMAIN issues
        /\ \A n \in DOMAIN issues : DetailOfIndex(n, HeldOf(n))

\* the pages of newspaper n summed over its years, over its record lists
\* and over the libraries
PagesOverYears(n) == Total(pages_by_newspaper_year[n])
PagesOverRecords(n) == Total([y \in DOMAIN data[n] |-> Len(data[n][y])])
PagesOverLibraries(n) == Total([lib \in DOMAIN libraries |-> Get(libraries[lib], n, 0)])

\* the pages of year y summed over the newspapers
PagesOverNewspapers(y) ==
    Total([n \in DOMAIN pages_by_newspaper_year |-> Get(pages_by_newspaper_year[n], y, 0)])

\* C30: after scan_corpus the page totals of the dimensions agree: for every
\* newspaper n, pages_by_newspaper[n] is the sum over the years of
\* pages_by_newspaper_year[n][y], the sum over the years of
\* len(data[n][y]) and the sum over the libraries of libraries[lib][n];
\* for every year y, pages_by_year[y] is the sum over the newspapers of
\* pages_by_newspaper_year[n][y].
C30_DimensionsAgree ==
    pc = "done" =>
        /\ DOMAIN pages_by_newspaper = DOMAIN data
        /\ DOMAIN pages_by_newspaper_year = DOMAIN data
        /\ \A n \in DOMAIN pages_by_newspaper :
              /\ pages_by_newspaper[n] = PagesOverYears(n)
              /\ pages_by_newspaper[n] = PagesOverRecords(n)
              /\ pages_by_newspaper[n] = PagesOverLibraries(n)
        /\ \A y \in DOMAIN pages_by_year : pages_by_year[y] = PagesOverNewspapers(y)

\* a scan ended with a newspaper held in two years from two libraries and
\* a year that two newspapers share
C30_Witness ==
    /\ pc = "done"
    /\ \E n \in DOMAIN pages_by_newspaper :
          /\ pages_by_newspaper[n] = 3
          /\ Cardinality(DOMAIN pages_by_newspaper_year[n]) = 2
          /\ Cardinality({lib \in DOMAIN libraries : n \in DOMAIN libraries[lib]}) = 2
    /\ \E y \in DOMAIN pages_by_year :
          Cardinality({n \in DOMAIN data : y \in DOMAIN data[n]}) = 2

=============================================================================
